---- MODULE Spec2Model ----
(***************************************************************************)
(* Model of the orchestration core of the DLT ingestion framework:         *)
(*   src/core/retry_handler.py  CircuitBreaker, RetryHandler               *)
(*   src/core/orchestrator.py   IngestionOrchestrator                      *)
(*                                                                         *)
(* Time is counted in ticks of 100 ms (the floor of calculate_delay), so   *)
(* 1 s = 10 ticks.  datetime.now() is the variable now.                    *)
(***************************************************************************)
EXTENDS Integers, Sequences, FiniteSets, TLC

(***************************************************************************)
(* Bounds of the model.                                                    *)
(***************************************************************************)
MaxRetries == 3         \* RetryConfig.max_retries ranges over 0..MaxRetries
MaxThreshold == 3       \* failure_threshold ranges over 1..MaxThreshold
MaxTimeout == 2         \* CircuitBreakerConfig.timeout ranges over 1..MaxTimeout
MaxTime == 4            \* no new operation is started once now reaches MaxTime
MaxFailureCount == 3    \* no new operation is started once _failure_count reaches it

(***************************************************************************)
(* Program constants.                                                      *)
(***************************************************************************)
None == -1              \* _last_failure_time: Optional[datetime] = None
MinDelay == 1           \* max(0.1, delay): 100 ms = 1 tick
ExponentialBase == 2    \* RetryConfig.exponential_base

(***************************************************************************)
(* Python's exception classes, as far as isinstance() needs them.          *)
(***************************************************************************)
\* the classes e is an instance of (ConnectionError and TimeoutError derive
\* from OSError; RuntimeError and ValueError from Exception only)
Bases(e) ==
    CASE e = "ConnectionError" -> {"ConnectionError", "OSError", "Exception"}
      [] e = "TimeoutError"    -> {"TimeoutError", "OSError", "Exception"}
      [] e = "OSError"         -> {"OSError", "Exception"}
      [] OTHER                 -> {e, "Exception"}

isinstance(e, classes) == (Bases(e) \cap classes) # {}

\* RetryConfig.retryable_exceptions, the default
DEFAULT_RETRYABLE_EXCEPTIONS == {"ConnectionError", "TimeoutError", "OSError"}
\* API_RETRYABLE_EXCEPTIONS
API_RETRYABLE_EXCEPTIONS == {"ConnectionError", "TimeoutError"}

(***************************************************************************)
(* class CircuitBreaker                                                    *)
(***************************************************************************)
CircuitBreakerConfigs ==
    [failure_threshold : 1..MaxThreshold,
     success_threshold : {1, 2},
     timeout : 1..MaxTimeout]

\* CircuitBreaker.__init__
CircuitBreaker(cfg) ==
    [config |-> cfg,
     _state |-> "CLOSED",
     _failure_count |-> 0,
     _success_count |-> 0,
     _last_failure_time |-> None]

\* property CircuitBreaker.state, read at time t: the breaker after the read;
\* the value returned is its _state
state_eager(cb, t) ==
    IF cb._state = "OPEN" /\ cb._last_failure_time # None
    THEN [cb EXCEPT !._state = "HALF_OPEN"]
    ELSE cb

state(cb, t) ==
    IF cb._state = "OPEN"
       /\ cb._last_failure_time # None
       /\ t - cb._last_failure_time >= cb.config.timeout
    THEN [cb EXCEPT !._state = "HALF_OPEN"]
    ELSE cb

\* CircuitBreaker.record_success
record_success_late(cb) ==
    IF cb._state = "HALF_OPEN"
    THEN IF cb._success_count + 1 > cb.config.success_threshold
         THEN [cb EXCEPT !._state = "CLOSED",
                         !._failure_count = 0,
                         !._success_count = 0]
         ELSE [cb EXCEPT !._success_count = @ + 1]
    ELSE IF cb._state = "CLOSED"
         THEN [cb EXCEPT !._failure_count = 0]
         ELSE cb

record_success_keep(cb) ==
    IF cb._state = "HALF_OPEN"
    THEN IF cb._success_count + 1 >= cb.config.success_threshold
         THEN [cb EXCEPT !._state = "CLOSED"]
         ELSE [cb EXCEPT !._success_count = @ + 1]
    ELSE cb

record_success(cb) ==
    IF cb._state = "HALF_OPEN"
    THEN IF cb._success_count + 1 >= cb.config.success_threshold
         THEN [cb EXCEPT !._state = "CLOSED",
                         !._failure_count = 0,
                         !._success_count = 0]
         ELSE [cb EXCEPT !._success_count = @ + 1]
    ELSE IF cb._state = "CLOSED"
         THEN [cb EXCEPT !._failure_count = 0]
         ELSE cb

\* CircuitBreaker.record_failure at time t
record_failure_late(cb, t) ==
    LET c == [cb EXCEPT !._failure_count = @ + 1, !._last_failure_time = t]
    IN  IF cb._state = "HALF_OPEN"
        THEN [c EXCEPT !._state = "OPEN", !._success_count = 0]
        ELSE IF cb._state = "CLOSED" /\ c._failure_count > cb.config.failure_threshold
             THEN [c EXCEPT !._state = "OPEN"]
             ELSE c

record_failure_stay(cb, t) ==
    LET c == [cb EXCEPT !._failure_count = @ + 1, !._last_failure_time = t]
    IN  IF cb._state = "CLOSED" /\ c._failure_count >= cb.config.failure_threshold
        THEN [c EXCEPT !._state = "OPEN"]
        ELSE c

record_failure(cb, t) ==
    LET c == [cb EXCEPT !._failure_count = @ + 1, !._last_failure_time = t]
    IN  IF cb._state = "HALF_OPEN"
        THEN [c EXCEPT !._state = "OPEN", !._success_count = 0]
        ELSE IF cb._state = "CLOSED" /\ c._failure_count >= cb.config.failure_threshold
             THEN [c EXCEPT !._state = "OPEN"]
             ELSE c

\* CircuitBreaker.allow_request at time t: the value returned (the breaker
\* is left as state(cb, t))
allow_request(cb, t) == state(cb, t)._state # "OPEN"

(***************************************************************************)
(* class RetryHandler                                                      *)
(***************************************************************************)
RECURSIVE Pow(_, _)
Pow(b, n) == IF n <= 0 THEN 1 ELSE b * Pow(b, n - 1)

Min(a, b) == IF a <= b THEN a ELSE b
Max(a, b) == IF a >= b THEN a ELSE b

\* the variant of the delay whose exponent is the attempt number
base_delay_next(cfg, attempt) ==
    Min(cfg.initial_delay * Pow(cfg.exponential_base, attempt), cfg.max_delay)

\* RetryHandler.calculate_delay, up to the jitter: delay after min(delay, max_delay)
base_delay(cfg, attempt) ==
    Min(cfg.initial_delay * Pow(cfg.exponential_base, attempt - 1), cfg.max_delay)

\* jitter_range = delay * jitter (jitter in percent, the range in whole ticks)
jitter_range(cfg, attempt) ==
    IF cfg.jitter > 0 THEN (base_delay(cfg, attempt) * cfg.jitter) \div 100 ELSE 0

\* RetryHandler.calculate_delay; u is the value random.uniform drew from
\* -jitter_range..jitter_range
calculate_delay(cfg, attempt, u) ==
    Max(MinDelay, base_delay(cfg, attempt) + u)

\* RetryHandler.should_retry(exception) at time t, with breaker cb: the value
\* returned (the breaker is left as state(cb, t))
should_retry_any(cfg, cb, e, t) ==
    allow_request(cb, t)

should_retry(cfg, cb, e, t) ==
    IF ~allow_request(cb, t)
    THEN FALSE
    ELSE isinstance(e, cfg.retryable_exceptions)

\* The RetryConfig of the handlers under check
RetryConfigs ==
    [max_retries : 0..MaxRetries,
     initial_delay : {1},
     max_delay : {2},
     exponential_base : {ExponentialBase},
     jitter : {50},
     retryable_exceptions : {DEFAULT_RETRYABLE_EXCEPTIONS, API_RETRYABLE_EXCEPTIONS}]
    \cup \* without jitter, also with an initial delay below 100 ms
    [max_retries : {MaxRetries},
     initial_delay : {0, 1},
     max_delay : {2},
     exponential_base : {ExponentialBase},
     jitter : {0},
     retryable_exceptions : {DEFAULT_RETRYABLE_EXCEPTIONS}]

\* func, the callable handed to execute_with_retry: its first `fails` calls
\* raise ConnectionError, every later call ends as `final` says ("ok": it
\* returns; otherwise it raises that class: OSError is retryable under the
\* default retryable_exceptions and not under API_RETRYABLE_EXCEPTIONS).  The
\* k-th call returns the value k.  A call of func takes no time: time passes
\* in the sleeps and between the calls of execute_with_retry.
Funcs ==
    [fails : 0..MaxRetries, final : {"ok", "OSError"}]

func_outcome(f, k) == IF k <= f.fails THEN "ConnectionError" ELSE f.final

(***************************************************************************)
(* State.                                                                  *)
(*   now              datetime.now(), in ticks                             *)
(*   circuit_breaker  the CircuitBreaker the handler is attached to        *)
(*   run              the call of execute_with_retry in progress: its      *)
(*                    locals (attempt, last_exception), its position pc,   *)
(*                    and a record of what it has done so far              *)
(*   hist             history of the breaker, kept for the properties:     *)
(*                    the last operation made on it (op), at what time (t) *)
(*                    and on what breaker (prev); the number of            *)
(*                    record_failure calls since the last record_success   *)
(*                    (streak); the number of record_success calls made in *)
(*                    HALF_OPEN since the breaker last became HALF_OPEN    *)
(*                    with no record_failure since (half_open_successes);  *)
(*                    the time the breaker last became OPEN (opened_at)    *)
(*                    and whether a failure other than the rejection of a  *)
(*                    call was recorded since (failed_since_open)          *)
(***************************************************************************)
VARIABLES now, circuit_breaker, run, hist

(***************************************************************************)
(* State of an IngestionOrchestrator (used by SpecOrch).                   *)
(*   jobs             the list config_loader.load_jobs() returns           *)
(*   options          the arguments of run_all                             *)
(*   secrets          self.secrets, the content of the secrets file        *)
(*   breaker_heap     the CircuitBreaker objects created so far            *)
(*   circuit_breakers self._circuit_breakers: source name -> index of its  *)
(*                    object in breaker_heap                               *)
(*   worker           per thread: the job it runs and its position in      *)
(*                    execute_job                                          *)
(*   next_job         index of the next job to hand to a thread            *)
(*   active_jobs      MetricsCollector._active_jobs: job name -> metrics   *)
(*   completed_jobs   MetricsCollector._completed_jobs                     *)
(*   audit            the records MetadataTracker.record_job has written   *)
(*   main             run_all: its position, success_count, failed_count,  *)
(*                    the jobs whose execute_job has returned, in the      *)
(*                    order they did, and how many of them are counted     *)
(*   job_log          per job: the state of its future (or of its turn in  *)
(*                    the sequential loop), what execute_job returned and  *)
(*                    the status it ended with                             *)
(*   transfer_streak  per source name, for the properties: the number of   *)
(*                    transfer attempts that failed since the last one     *)
(*                    that succeeded                                       *)
(***************************************************************************)
VARIABLES jobs, options, secrets, breaker_heap, circuit_breakers, worker, next_job,
          active_jobs, completed_jobs, audit, main, job_log, transfer_streak

(***************************************************************************)
(* State of a ConfigLoader (used by SpecLoader).                           *)
(*   credential_stores  what each credential backend holds for the source  *)
(*                      that is looked up                                  *)
(*   lookup             the call of get_source_config: not made yet, or    *)
(*                      its result                                         *)
(*   secrets_file       how often get_source_config was called and how     *)
(*                      often toml.load has read .dlt/secrets.toml         *)
(*   secret_check       an IngestionOrchestrator on the ConfigLoader (used *)
(*                      by SpecSecrets): the secrets its constructor       *)
(*                      loaded and the outcome of execute_job's check of   *)
(*                      the source                                         *)
(***************************************************************************)
VARIABLES credential_stores, lookup, secrets_file, secret_check

(***************************************************************************)
(* State of a MetricsCollector (used by SpecHealth and SpecMetrics).       *)
(*   collector  its fields: _active_jobs (job name -> PipelineMetrics),    *)
(*              _completed_jobs (list), _hooks (list), and two records of  *)
(*              what its last complete_job did: the hook calls made, in    *)
(*              order, and whether an exception left complete_job; and     *)
(*              the arguments of that complete_job, with the hooks that    *)
(*              were registered when it was called                         *)
(*   health     what the last get_health_score() returned, as the fraction *)
(*              num / den, or NoScore                                      *)
(***************************************************************************)
VARIABLES collector, health

(***************************************************************************)
(* A ConfigValidator at work (used by SpecValidate).                       *)
(*   descriptors  the list of job dicts the caller holds and passes        *)
(*   validation   what the last call of validate_job or validate_all_jobs  *)
(*                was given and returned                                   *)
(***************************************************************************)
VARIABLES descriptors, validation

(***************************************************************************)
(* A ConfigLoader asked for a destination (used by SpecDestination).       *)
(*   destination_section  what the secrets file holds under [destination]  *)
(*   destination          what the last get_destination_config returned or *)
(*                        raised                                           *)
(***************************************************************************)
VARIABLES destination_section, destination

harness_vars == <<circuit_breaker, run, hist>>

metrics_vars == <<collector, health>>

validator_vars == <<descriptors, validation>>

destination_vars == <<destination_section, destination>>

loader_vars == <<credential_stores, lookup, secrets_file, secret_check>>

orch_vars == <<jobs, options, secrets, breaker_heap, circuit_breakers, worker, next_job,
               active_jobs, completed_jobs, audit, main, job_log, transfer_streak>>

vars == <<now, circuit_breaker, run, hist, credential_stores, lookup, secrets_file,
          secret_check,
          collector, health,
          descriptors, validation, destination_section, destination,
          jobs, options, secrets, breaker_heap,
          circuit_breakers, worker, next_job, active_jobs, completed_jobs,
          audit, main, job_log, transfer_streak>>

\* hist after operation op made at time t on breaker cb, which left it as new
observe(h, op, cb, new, t) ==
    [op |-> op, prev |-> cb, t |-> t,
     streak |-> IF op = "record_failure" THEN h.streak + 1
                ELSE IF op = "record_success" THEN 0
                ELSE h.streak,
     half_open_successes |->
                IF op = "record_failure" THEN 0
                ELSE IF op = "record_success" /\ cb._state = "HALF_OPEN"
                     THEN h.half_open_successes + 1
                ELSE IF op = "state" /\ cb._state = "OPEN" /\ new._state = "HALF_OPEN"
                     THEN 0
                ELSE h.half_open_successes,
     \* the time the breaker last became OPEN, and whether a failure has been
     \* recorded since that was not the rejection of lines 212-215
     opened_at |-> IF cb._state # "OPEN" /\ new._state = "OPEN" THEN t ELSE h.opened_at,
     failed_since_open |->
                IF cb._state # "OPEN" /\ new._state = "OPEN" THEN FALSE
                ELSE IF op = "record_failure"
                        /\ ~(run.pc = "except" /\ run.last_exception = "RuntimeError")
                     THEN TRUE
                ELSE h.failed_since_open]

NoRun ==
    [pc |-> "idle", config |-> [max_retries |-> 0, initial_delay |-> 0,
                                max_delay |-> 0, exponential_base |-> 0,
                                jitter |-> 0, retryable_exceptions |-> {}],
     func |-> [fails |-> 0, final |-> "ok"],
     attempt |-> 0, last_exception |-> "None", delay |-> 0,
     calls |-> 0, sleeps |-> 0, slept |-> 0,
     rejected |-> FALSE, calls_when_rejected |-> 0, attempt_when_rejected |-> 0,
     recorded_failures |-> 0, recorded_successes |-> 0,
     outcome |-> "none", result |-> 0, raised |-> "None",
     cb0 |-> CircuitBreaker([failure_threshold |-> 1, success_threshold |-> 1,
                             timeout |-> 1])]

\* entry of execute_with_retry (lines 208-210): last_exception = None and the
\* first value of range(1, max_retries + 1); an empty range falls through to
\* line 255, where last_exception is None, and the call returns None
begin_call(cfg, f, cb) ==
    [NoRun EXCEPT !.config = cfg, !.func = f, !.cb0 = cb,
                  !.pc = IF cfg.max_retries >= 1 THEN "check" ELSE "done",
                  !.attempt = IF cfg.max_retries >= 1 THEN 1 ELSE 0,
                  !.outcome = IF cfg.max_retries >= 1 THEN "none" ELSE "returned_none"]

\* lines 212-216: the breaker is consulted; OPEN raises RuntimeError inside the try
after_check_call_anyway(r, cb, t) ==
    [r EXCEPT !.pc = "call", !.rejected = ~allow_request(cb, t),
              !.calls_when_rejected = r.calls, !.attempt_when_rejected = r.attempt]

after_check(r, cb, t) ==
    IF ~allow_request(cb, t)
    THEN [r EXCEPT !.pc = "except", !.last_exception = "RuntimeError",
                   !.rejected = TRUE, !.calls_when_rejected = r.calls,
                   !.attempt_when_rejected = r.attempt]
    ELSE [r EXCEPT !.pc = "call"]

\* line 219: func is called; it returns (pc success) or raises (pc except)
after_func(r) ==
    LET k == r.calls + 1
        o == func_outcome(r.func, k)
    IN  IF o = "ok"
        THEN [r EXCEPT !.calls = k, !.result = k, !.pc = "success"]
        ELSE [r EXCEPT !.calls = k, !.last_exception = o, !.pc = "except"]

\* lines 222-228: record_success, then return result
after_success(r) ==
    [r EXCEPT !.recorded_successes = @ + 1, !.outcome = "returned", !.pc = "done"]

\* lines 230-235: last_exception = e, record_failure
after_except(r) ==
    [r EXCEPT !.recorded_failures = @ + 1, !.pc = "should_retry"]

\* lines 238-245: raise, or calculate the delay (u is the jitter drawn)
after_should_retry_no_limit(r, cb, t, u) ==
    IF ~should_retry(r.config, cb, r.last_exception, t)
    THEN [r EXCEPT !.outcome = "raised", !.raised = r.last_exception, !.pc = "done"]
    ELSE [r EXCEPT !.delay = calculate_delay(r.config, r.attempt, u), !.pc = "sleep"]

after_should_retry(r, cb, t, u) ==
    IF ~should_retry(r.config, cb, r.last_exception, t)
       \/ r.attempt >= r.config.max_retries
    THEN [r EXCEPT !.outcome = "raised", !.raised = r.last_exception, !.pc = "done"]
    ELSE [r EXCEPT !.delay = calculate_delay(r.config, r.attempt, u), !.pc = "sleep"]

\* line 252 and the next value of range(1, max_retries + 1)
after_sleep(r) ==
    [r EXCEPT !.sleeps = @ + 1, !.slept = @ + r.delay, !.attempt = @ + 1,
              !.delay = 0, !.pc = "check"]

\* get_source_config has not been called
NoLookup == [pc |-> "none", raised |-> "None",
             config |-> [is_none |-> TRUE, items |-> <<>>], consulted |-> <<>>]

\* .dlt/secrets.toml has not been loaded and no lookup was made
NoLoads == [lookups |-> 0, loads |-> 0]

\* no IngestionOrchestrator is constructed on the ConfigLoader
NoSecretCheck ==
    [pc |-> "none", source_type |-> "api",
     secrets |-> [has_sources |-> FALSE, sources |-> <<>>], status |-> "none"]

\* no ConfigLoader is constructed
NoLoader ==
    /\ credential_stores = <<>>
    /\ lookup = NoLookup
    /\ secrets_file = NoLoads
    /\ secret_check = NoSecretCheck

\* get_health_score has not been called
NoScore == [num |-> None, den |-> 1]

\* MetricsCollector.__init__, lines 105-115
MetricsCollector ==
    [active_jobs |-> <<>>, completed_jobs |-> <<>>, hooks |-> <<>>,
     hook_calls |-> <<>>, raised |-> FALSE,
     completing |-> [job_name |-> <<>>, status |-> "none", was_active |-> FALSE,
                     hooks |-> <<>>]]

\* a collector nobody has used
NoCollector ==
    /\ collector = MetricsCollector
    /\ health = NoScore

\* the validator has not been called
NoValidation ==
    [op |-> "none", job |-> 0, given |-> <<>>, all_valid |-> TRUE, results |-> <<>>]

\* no validator is at work
NoValidator ==
    /\ descriptors = <<>>
    /\ validation = NoValidation

\* get_destination_config has not been called
NoDestination == [pc |-> "none", config |-> <<>>]

\* no destination is looked up
NoDestinationLookup ==
    /\ destination_section = <<>>
    /\ destination = NoDestination

\* no orchestrator is constructed
NoOrchestrator ==
    /\ jobs = <<>>
    /\ options = [parallel |-> FALSE, max_workers |-> 1, skip_validation |-> FALSE]
    /\ secrets = [has_sources |-> FALSE, sources |-> <<>>]
    /\ breaker_heap = <<>>
    /\ circuit_breakers = <<>>
    /\ worker = <<>>
    /\ next_job = 1
    /\ active_jobs = <<>>
    /\ completed_jobs = <<>>
    /\ audit = <<>>
    /\ main = [pc |-> "none", success_count |-> 0, failed_count |-> 0, finished |-> <<>>,
               counted |-> 0]
    /\ job_log = <<>>
    /\ transfer_streak = <<>>

Init ==
    /\ now = 0
    /\ NoCollector
    /\ NoValidator
    /\ NoDestinationLookup
    /\ circuit_breaker \in {CircuitBreaker(c) : c \in CircuitBreakerConfigs}
    /\ run = NoRun
    /\ hist = [op |-> "init", prev |-> circuit_breaker, t |-> 0,
               streak |-> 0, half_open_successes |-> 0,
               opened_at |-> None, failed_since_open |-> FALSE]
    /\ NoOrchestrator
    /\ NoLoader

\* an operation named op on the breaker, leaving it as new
BreakerOp(op, new) ==
    /\ circuit_breaker' = new
    /\ hist' = observe(hist, op, circuit_breaker, new, now)

\* no operation is started once the clock or the failure count is at its bound
MayStart ==
    /\ run.pc = "idle"
    /\ now < MaxTime
    /\ circuit_breaker._failure_count < MaxFailureCount

\* time passes between two operations on the breaker
Tick ==
    /\ run.pc = "idle"
    /\ now < MaxTime
    /\ now' = now + 1
    /\ UNCHANGED <<circuit_breaker, run, hist>>
    /\ UNCHANGED <<orch_vars, loader_vars, destination_vars, metrics_vars, validator_vars>>

\* some caller reads CircuitBreaker.state or calls allow_request
ReadState ==
    /\ run.pc = "idle"
    /\ BreakerOp("state", state(circuit_breaker, now))
    /\ UNCHANGED <<now, run>>
    /\ UNCHANGED <<orch_vars, loader_vars, destination_vars, metrics_vars, validator_vars>>

\* some caller calls CircuitBreaker.record_success
RecordSuccess ==
    /\ run.pc = "idle"
    /\ BreakerOp("record_success", record_success(circuit_breaker))
    /\ UNCHANGED <<now, run>>
    /\ UNCHANGED <<orch_vars, loader_vars, destination_vars, metrics_vars, validator_vars>>

\* some caller calls CircuitBreaker.record_failure
RecordFailure ==
    /\ MayStart
    /\ BreakerOp("record_failure", record_failure(circuit_breaker, now))
    /\ UNCHANGED <<now, run>>
    /\ UNCHANGED <<orch_vars, loader_vars, destination_vars, metrics_vars, validator_vars>>

\* RetryHandler(config, circuit_breaker).execute_with_retry(func) is called
StartCall ==
    /\ MayStart
    /\ \E cfg \in RetryConfigs, f \in Funcs :
           run' = begin_call(cfg, f, circuit_breaker)
    /\ UNCHANGED <<now, circuit_breaker, hist>>
    /\ UNCHANGED <<orch_vars, loader_vars, destination_vars, metrics_vars, validator_vars>>

\* lines 212-216
Check ==
    /\ run.pc = "check"
    /\ run' = after_check(run, circuit_breaker, now)
    /\ BreakerOp("state", state(circuit_breaker, now))
    /\ UNCHANGED now
    /\ UNCHANGED <<orch_vars, loader_vars, destination_vars, metrics_vars, validator_vars>>

\* line 219
CallFunc ==
    /\ run.pc = "call"
    /\ run' = after_func(run)
    /\ UNCHANGED <<now, circuit_breaker, hist>>
    /\ UNCHANGED <<orch_vars, loader_vars, destination_vars, metrics_vars, validator_vars>>

\* lines 222-228
Success ==
    /\ run.pc = "success"
    /\ BreakerOp("record_success", record_success(circuit_breaker))
    /\ run' = after_success(run)
    /\ UNCHANGED now
    /\ UNCHANGED <<orch_vars, loader_vars, destination_vars, metrics_vars, validator_vars>>

\* lines 230-235
Except ==
    /\ run.pc = "except"
    /\ BreakerOp("record_failure", record_failure(circuit_breaker, now))
    /\ run' = after_except(run)
    /\ UNCHANGED now
    /\ UNCHANGED <<orch_vars, loader_vars, destination_vars, metrics_vars, validator_vars>>

\* lines 238-250
ShouldRetry ==
    /\ run.pc = "should_retry"
    /\ \E u \in -jitter_range(run.config, run.attempt)..jitter_range(run.config, run.attempt) :
           run' = after_should_retry(run, circuit_breaker, now, u)
    /\ BreakerOp("state", state(circuit_breaker, now))
    /\ UNCHANGED now
    /\ UNCHANGED <<orch_vars, loader_vars, destination_vars, metrics_vars, validator_vars>>

\* line 252
Sleep ==
    /\ run.pc = "sleep"
    /\ now' = now + run.delay
    /\ run' = after_sleep(run)
    /\ UNCHANGED <<circuit_breaker, hist>>
    /\ UNCHANGED <<orch_vars, loader_vars, destination_vars, metrics_vars, validator_vars>>

\* the caller has the result or the exception; the handler is dropped
Return ==
    /\ run.pc = "done"
    /\ run' = NoRun
    /\ UNCHANGED <<now, circuit_breaker, hist>>
    /\ UNCHANGED <<orch_vars, loader_vars, destination_vars, metrics_vars, validator_vars>>

Next ==
    \/ Tick
    \/ ReadState
    \/ RecordSuccess
    \/ RecordFailure
    \/ StartCall
    \/ Check
    \/ CallFunc
    \/ Success
    \/ Except
    \/ ShouldRetry
    \/ Sleep
    \/ Return

Spec == Init /\ [][Next]_vars

(***************************************************************************)
(* src/core/validators.py                                                  *)
(***************************************************************************)
\* a job is a record of the columns of one row of the job list; a column the
\* row leaves empty holds NoValue (load_jobs turns NaN into None), an empty
\* chunk_size holds None
NoValue == "<None>"

ValidationResult(passed, message, severity) ==
    [passed |-> passed, message |-> message, severity |-> severity]

\* ConfigValidator.REQUIRED_COLUMNS
REQUIRED_COLUMNS == <<"source_type", "source_name", "table_name", "load_type", "enabled">>
\* ConfigValidator.VALID_SOURCE_TYPES, VALID_LOAD_TYPES
VALID_SOURCE_TYPES == {"postgresql", "oracle", "mssql", "azure_sql", "api"}
VALID_LOAD_TYPES == {"FULL", "INCREMENTAL"}
\* chunk_size < 1000 or chunk_size > 10000000
MinChunkSize == 1000
MaxChunkSize == 10000000

\* a chunk_size cell whose content int(float(...)) cannot convert, such as 'abc'
NotANumber == -2

\* str.lower and str.upper on the source types and load types of the model
lower(s) == CASE s = "PostgreSQL" -> "postgresql"
              [] s = "FTP" -> "ftp"
              [] OTHER -> s

upper(s) == CASE s = "incremental" -> "INCREMENTAL"
              [] s = "full" -> "FULL"
              [] s = "merge" -> "MERGE"
              [] OTHER -> s

\* col not in job or job[col] is None or str(job[col]).strip() == ''
IsBlank(v) == v \in {NoValue, "", " "}

\* the variant of IsFalsy that holds of None only
IsNone(v) == v = NoValue

\* not job.get(col): None (also of a column the job lacks) or the empty string
IsFalsy(v) == v \in {NoValue, ""}

\* re.match(r'^[a-zA-Z_][a-zA-Z0-9_]*$', table_name), on the table names of
\* the job lists of the model
MatchesIdentifier(name) == name \in {"orders", "customers", "users", "_staging"}

\* the results of lines 60-66, one per blank required column
RECURSIVE MissingFields(_, _)
MissingFields(job, i) ==
    IF i > Len(REQUIRED_COLUMNS) THEN <<>>
    ELSE (IF IsBlank(job[REQUIRED_COLUMNS[i]])
          THEN <<ValidationResult(FALSE, <<"Missing required field", REQUIRED_COLUMNS[i]>>, "critical")>>
          ELSE <<>>) \o MissingFields(job, i + 1)

\* the variant of validate_job that reports a chunk_size out of range as an error
validate_job_strict(job) ==
    IF job.chunk_size \notin {None, NotANumber}
       /\ (job.chunk_size < MinChunkSize \/ job.chunk_size > MaxChunkSize)
    THEN <<ValidationResult(FALSE, <<"chunk_size out of range (1,000 - 10,000,000)", "">>, "error")>>
    ELSE <<ValidationResult(TRUE, <<"Job configuration valid", job.table_name>>, "info")>>

\* ConfigValidator.validate_job, lines 48-146
validate_job(job) ==
    LET missing == MissingFields(job, 1)
        source_type == lower(job.source_type)
        load_type == upper(job.load_type)
        r_source == IF source_type \notin VALID_SOURCE_TYPES
                    THEN <<ValidationResult(FALSE, <<"Invalid source_type", source_type>>, "error")>>
                    ELSE <<>>
        r_load == IF load_type \notin VALID_LOAD_TYPES
                  THEN <<ValidationResult(FALSE, <<"Invalid load_type", load_type>>, "error")>>
                  ELSE <<>>
        r_incr == IF load_type = "INCREMENTAL" /\ IsFalsy(job.watermark_column)
                  THEN <<ValidationResult(FALSE, <<"INCREMENTAL load requires 'watermark_column'", "">>, "error")>>
                  ELSE <<>>
        r_table == IF ~MatchesIdentifier(job.table_name)
                   THEN <<ValidationResult(FALSE, <<"Invalid table_name format", job.table_name>>, "warning")>>
                   ELSE <<>>
        r_chunk == IF job.chunk_size = None THEN <<>>
                   ELSE IF job.chunk_size = NotANumber
                   THEN <<ValidationResult(FALSE, <<"chunk_size must be an integer", "">>, "warning")>>
                   ELSE IF job.chunk_size < MinChunkSize \/ job.chunk_size > MaxChunkSize
                   THEN <<ValidationResult(FALSE, <<"chunk_size out of range (1,000 - 10,000,000)", "">>, "warning")>>
                   ELSE <<>>
        r_oracle == IF source_type = "oracle" /\ IsFalsy(job.schema_name)
                    THEN <<ValidationResult(FALSE, <<"Oracle source requires 'schema_name'", "">>, "error")>>
                    ELSE <<>>
        results == r_source \o r_load \o r_incr \o r_table \o r_chunk \o r_oracle
    IN  IF missing # <<>>
        THEN missing
        ELSE IF results = <<>>
             THEN <<ValidationResult(TRUE, <<"Job configuration valid", job.table_name>>, "info")>>
             ELSE results

\* SecretsValidator.REQUIRED_DB_KEYS, REQUIRED_API_KEYS
REQUIRED_DB_KEYS == {"host", "port", "database", "username", "password"}
REQUIRED_API_KEYS == {"base_url"}

\* a validator that finds every source's secrets valid
validate_source_secrets_pass(file, source_name, source_type) ==
    <<ValidationResult(TRUE, <<"Secrets valid for source", source_name>>, "info")>>

\* SecretsValidator.validate_source_secrets on the secrets file; file.sources
\* maps each source name of the file to the set of keys it holds
validate_source_secrets(file, source_name, source_type) ==
    IF ~file.has_sources
    THEN <<ValidationResult(FALSE, <<"No 'sources' section found in secrets", "">>, "critical")>>
    ELSE IF source_name \notin DOMAIN file.sources
    THEN <<ValidationResult(FALSE, <<"Source not found in secrets", source_name>>, "critical")>>
    ELSE LET required_keys == IF source_type = "api" THEN REQUIRED_API_KEYS
                              ELSE REQUIRED_DB_KEYS
             missing_keys == required_keys \ file.sources[source_name]
         IN  IF missing_keys # {}
             THEN <<ValidationResult(FALSE, <<"Missing secret keys", source_name>>, "critical")>>
             ELSE <<ValidationResult(TRUE, <<"Secrets valid for source", source_name>>, "info")>>

(***************************************************************************)
(* src/core/orchestrator.py: IngestionOrchestrator.                        *)
(***************************************************************************)
MaxJobs == 3            \* load_jobs returns at most MaxJobs jobs
MaxParallelJobs == 2    \* and at most MaxParallelJobs jobs when run_all is parallel

\* a row of the jobs sheet
Job(source_type, source_name, table_name, load_type, watermark_column, chunk_size) ==
    [source_type |-> source_type, source_name |-> source_name,
     table_name |-> table_name, load_type |-> load_type, enabled |-> "Y",
     watermark_column |-> watermark_column, chunk_size |-> chunk_size,
     schema_name |-> NoValue]

\* the rows a jobs sheet of the model is made of: a valid database job, an
\* INCREMENTAL job without a watermark column on the same source, a valid API
\* job, a database job whose source has no entry in the secrets file, a
\* row whose source_type cell is empty (None after load_jobs, lines 99-115)
\* and a database job whose table name has a hyphen and whose chunk_size is 500
JobCatalog ==
    { Job("postgresql", "pg_main", "orders", "FULL", NoValue, None),
      Job(NoValue, "pg_main", "customers", "FULL", NoValue, None),
      Job("postgresql", "pg_main", "users", "INCREMENTAL", NoValue, None),
      Job("api", "crm_api", "users", "FULL", NoValue, None),
      Job("postgresql", "pg_other", "orders", "FULL", NoValue, None),
      Job("postgresql", "pg_main", "order-items", "FULL", NoValue, 500) }

JobLists == UNION { [1..n -> JobCatalog] : n \in 0..MaxJobs }

SourceNames == { j.source_name : j \in JobCatalog }

\* execute_job, line 239: job['source_type'].lower() raises AttributeError on
\* None, before the try of line 288
RaisesBeforeTry(job) == job.source_type = NoValue

\* self.secrets, as ConfigLoader.load_secrets returns it: complete entries
\* for pg_main and crm_api and none for pg_other, the same with an entry for
\* pg_other that lacks its password, or a file without a sources section
SecretsFiles ==
    { [has_sources |-> TRUE,
       sources |-> ("pg_main" :> REQUIRED_DB_KEYS @@ "crm_api" :> REQUIRED_API_KEYS)],
      [has_sources |-> TRUE,
       sources |-> ("pg_main" :> REQUIRED_DB_KEYS @@ "crm_api" :> REQUIRED_API_KEYS
                    @@ "pg_other" :> (REQUIRED_DB_KEYS \ {"password"}))],
      [has_sources |-> FALSE, sources |-> <<>>] }

\* the arguments of run_all
Options ==
    { [parallel |-> FALSE, max_workers |-> 1, skip_validation |-> s] : s \in BOOLEAN }
    \cup [parallel : {TRUE}, max_workers : {1, 2}, skip_validation : BOOLEAN]

\* what the transfer of one job (pipeline.run and the calls around it) does
\* each time it is invoked: its first fails invocations raise ConnectionError,
\* the later ones end as final says, loading rows rows when they succeed.
\* The transfers of the model: one that succeeds, one that fails once and
\* succeeds when invoked again, one that fails with ConnectionError however
\* often it is invoked and one that fails with an error that is not retried.
Transfers ==
    { [fails |-> 0, final |-> "ok", rows |-> 100],
      [fails |-> 1, final |-> "ok", rows |-> 100],
      [fails |-> 5, final |-> "ConnectionError", rows |-> 100],
      [fails |-> 0, final |-> "ValueError", rows |-> 100] }

\* line 238
job_name(job) == <<job.source_name, job.table_name>>

\* lines 165-169: a result that makes all_valid False
IsBlockingResult(result) ==
    ~result.passed /\ result.severity \in {"error", "critical"}

\* the variant of validate_all_jobs that looks at the first job only
validate_all_jobs_first(js) ==
    IF js = <<>> THEN <<TRUE, <<>>>>
    ELSE <<\A i \in DOMAIN validate_job(js[1]) : ~IsBlockingResult(validate_job(js[1])[i]),
           validate_job(js[1])>>

\* ConfigValidator.validate_all_jobs, lines 148-171: the tuple (all_valid, all_results)
RECURSIVE validate_all_jobs(_)
validate_all_jobs(js) ==
    IF js = <<>> THEN <<TRUE, <<>>>>
    ELSE LET job_results == validate_job(Head(js))
             rest == validate_all_jobs(Tail(js))
         IN  <<(\A i \in DOMAIN job_results : ~IsBlockingResult(job_results[i])) /\ rest[1],
               job_results \o rest[2]>>

\* lines 252-264: the first result that ends the job with VALIDATION_FAILED, or 0
FirstBlocking(results) ==
    LET blocking == { i \in DOMAIN results :
                        /\ ~results[i].passed
                        /\ results[i].severity \in {"error", "critical"} }
    IN  IF blocking = {} THEN 0
        ELSE CHOOSE i \in blocking : \A k \in blocking : i <= k

\* lines 270-280: the first secrets result that ends the job with SECRETS_INVALID, or 0
FirstFailed(results) ==
    LET failed == { i \in DOMAIN results : ~results[i].passed }
    IN  IF failed = {} THEN 0
        ELSE CHOOSE i \in failed : \A k \in failed : i <= k

\* MetadataTracker.record_job: one row of the audit file
record_job(name, status, rows) == [job_name |-> name, status |-> status, rows |-> rows]

\* MetricsCollector.start_job: self._active_jobs[job_name] = metrics
start_job(active, name, source_type) ==
    (name :> [job_name |-> name, source_type |-> source_type, status |-> "RUNNING",
              rows_processed |-> 0, retry_count |-> 0, error_count |-> 0]) @@ active

\* MetricsCollector.complete_job: the pair (_active_jobs, _completed_jobs) after
\* the call; a job that is not active is only logged
complete_job(active, completed, name, status, rows_processed) ==
    IF name \notin DOMAIN active
    THEN [active |-> active, completed |-> completed]
    ELSE [active |-> [n \in (DOMAIN active) \ {name} |-> active[n]],
          completed |-> Append(completed, [active[name] EXCEPT
                                               !.status = status,
                                               !.rows_processed = rows_processed])]

\* _determine_chunk_size, line 532
DefaultChunkSize == 100000

\* BaseSource.estimate_table_size on a table of row_count rows: the tuple
\* (row_count, recommended_chunk)
estimate_table_size(row_count) ==
    <<row_count,
      IF row_count < 100000 THEN 50000
      ELSE IF row_count < 1000000 THEN 100000
      ELSE IF row_count < 10000000 THEN 250000
      ELSE IF row_count < 50000000 THEN 500000
      ELSE 1000000>>

\* _execute_database_job, lines 381-391: the estimate is made for FULL loads
\* only; tr.rows is the size of the table
preflight_estimate(job, tr) ==
    IF upper(job.load_type) = "FULL" THEN estimate_table_size(tr.rows)
    ELSE <<None, 100000>>

\* _determine_chunk_size, lines 519-552: a configured chunk_size that is
\* truthy and not NaN and that int() converts is used as it is
determine_chunk_size(job, estimated_rows, recommended_chunk) ==
    IF job.chunk_size \notin {None, 0}
    THEN IF job.chunk_size = NotANumber THEN DefaultChunkSize
         ELSE job.chunk_size
    ELSE IF estimated_rows # None /\ estimated_rows > 1000000
    THEN recommended_chunk
    ELSE DefaultChunkSize

\* execute_job, lines 329, 343 and 360: True after SUCCESS only
execute_job_returns_always ==
    [status \in {"SUCCESS", "FAILED", "ERROR"} |-> TRUE]

execute_job_returns ==
    [status \in {"SUCCESS", "FAILED", "ERROR"} |-> status = "SUCCESS"]

\* _get_circuit_breaker, lines 198-205: the breaker a source gets (60 s = 600 ticks)
new_circuit_breaker ==
    CircuitBreaker([failure_threshold |-> 3, success_threshold |-> 1, timeout |-> 600])

\* _get_retry_handler, lines 212-225: the RetryConfig of a source type, in ticks;
\* jitter and retryable_exceptions keep the defaults of RetryConfig (10 percent)
get_retry_config(source_type) ==
    IF source_type = "api"
    THEN [max_retries |-> 5, initial_delay |-> 10, max_delay |-> 600,
          exponential_base |-> ExponentialBase, jitter |-> 10,
          retryable_exceptions |-> DEFAULT_RETRYABLE_EXCEPTIONS]
    ELSE [max_retries |-> 3, initial_delay |-> 20, max_delay |-> 300,
          exponential_base |-> ExponentialBase, jitter |-> 10,
          retryable_exceptions |-> DEFAULT_RETRYABLE_EXCEPTIONS]

\* _execute_database_job as the func execute_with_retry calls: whatever the
\* transfer raises is caught at line 463 and the method returns, so seen from
\* the retry handler no call of it fails
execute_database_job(tr) == [fails |-> 0, final |-> "ok"]

\* _execute_api_job: the same, the exception is caught at line 515
execute_api_job(tr) == [fails |-> 0, final |-> "ok"]

\* the tuple (success, rows_processed) the k-th call of _execute_database_job
\* or _execute_api_job returns: (True, rows) at lines 461 and 513, (False, 0)
\* at lines 465 and 517
execute_job_result(tr, k) ==
    IF func_outcome(tr, k) = "ok" THEN <<TRUE, tr.rows>> ELSE <<FALSE, 0>>

\* RetryHandler.execute_with_retry run from its entry to its end on breaker b
\* at time t, by the steps of the handler above: the set of possible ends
\* (the jitter drawn for each delay is free), each with the final run, the
\* breaker and the time after the sleeps
RECURSIVE RunToEnd(_, _, _)
RunToEnd(r, b, t) ==
    CASE r.pc = "check" -> RunToEnd(after_check(r, b, t), state(b, t), t)
      [] r.pc = "call" -> RunToEnd(after_func(r), b, t)
      [] r.pc = "success" -> RunToEnd(after_success(r), record_success(b), t)
      [] r.pc = "except" -> RunToEnd(after_except(r), record_failure(b, t), t)
      [] r.pc = "should_retry" ->
            UNION { RunToEnd(after_should_retry(r, b, t, u), state(b, t), t) :
                      u \in -jitter_range(r.config, r.attempt)..jitter_range(r.config, r.attempt) }
      [] r.pc = "sleep" -> RunToEnd(after_sleep(r), b, t + r.delay)
      [] OTHER -> {[run |-> r, cb |-> b, now |-> t]}

execute_with_retry(cfg, f, b, t) == RunToEnd(begin_call(cfg, f, b), b, t)

\* the transfer attempts of one source that failed in a row, after a job made
\* calls invocations of transfer tr
streak_after(streak, tr, calls) ==
    LET ok == { k \in 1..calls : func_outcome(tr, k) = "ok" }
    IN  IF ok = {} THEN streak + calls
        ELSE calls - (CHOOSE k \in ok : \A m \in ok : m <= k)

\* a thread that runs no job; while it runs one: the job's index, the index of
\* the breaker its RetryHandler got, the run of execute_with_retry and, for
\* the properties, the transfer the job was given and the failed attempts in
\* a row its source had seen before
IdleWorker ==
    [pc |-> "idle", job |-> 0, cb |-> 0, run |-> NoRun,
     transfer |-> [fails |-> 0, final |-> "ok", rows |-> 0], streak_before |-> 0]

\* a job not yet submitted: its future, the value execute_job returned,
\* whether execute_job raised, the status execute_job recorded and, for the
\* properties, how often its transfer was invoked and the chunk_size
\* _determine_chunk_size returned for it (None before the transfer and for an
\* API job)
NewJobLog ==
    [future |-> "pending", returned |-> FALSE, raised |-> FALSE, status |-> "none",
     transfer_calls |-> 0, chunk_size |-> None]

\* the harness of Spec is not used
NoHarness ==
    /\ circuit_breaker = new_circuit_breaker
    /\ run = NoRun
    /\ hist = [op |-> "init", prev |-> new_circuit_breaker, t |-> 0,
               streak |-> 0, half_open_successes |-> 0,
               opened_at |-> None, failed_since_open |-> FALSE]

\* an orchestrator after __init__, about to run run_all on a jobs sheet
InitOrch ==
    /\ now = 0
    /\ NoCollector
    /\ NoValidator
    /\ NoDestinationLookup
    /\ NoHarness
    /\ NoLoader
    /\ jobs \in JobLists
    /\ options \in Options
    /\ options.parallel => Len(jobs) <= MaxParallelJobs
    /\ secrets \in SecretsFiles
    /\ breaker_heap = <<>>
    /\ circuit_breakers = <<>>
    /\ worker = [w \in 1..options.max_workers |-> IdleWorker]
    /\ next_job = 1
    /\ active_jobs = <<>>
    /\ completed_jobs = <<>>
    /\ audit = <<>>
    /\ main = [pc |-> "start", success_count |-> 0, failed_count |-> 0, finished |-> <<>>,
               counted |-> 0]
    /\ job_log = [i \in DOMAIN jobs |-> NewJobLog]
    /\ transfer_streak = [s \in SourceNames |-> 0]

\* run_all, lines 661-691: no job ends the run, a job that fails validation
\* with error or critical aborts it unless skip_validation, else the jobs are
\* executed
RunAllStart ==
    /\ main.pc = "start"
    /\ main' = [main EXCEPT !.pc =
                   IF jobs = <<>> THEN "returned_no_jobs"
                   ELSE IF ~options.skip_validation /\ ~validate_all_jobs(jobs)[1]
                        THEN "aborted"
                        ELSE "running"]
    /\ UNCHANGED <<now, harness_vars, loader_vars, destination_vars, metrics_vars, validator_vars, jobs, options, secrets, breaker_heap, circuit_breakers,
                   worker, next_job, active_jobs, completed_jobs, audit, job_log,
                   transfer_streak>>

\* a run_all that starts the next job whatever the jobs before it do
MayBegin_at_once(w) == TRUE

\* thread w may start execute_job for the next job of the list: a pool thread
\* (line 699) takes the next job submitted at line 700 when it runs none; the
\* loop of lines 719-727 calls execute_job for a job when the call for the
\* job before it has returned or raised and has been counted
MayBegin(w) ==
    /\ worker[w].pc = "idle"
    /\ options.parallel \/ main.counted = next_job - 1

\* execute_job, lines 238-283, for the next job of the list, on a free thread
\* of the pool (parallel) or in the loop of line 719 once the job before it
\* has been counted (sequential): the job's fields are read (an exception
\* here leaves execute_job), validation and secrets checks, each ending
\* the job with an audit record, then metrics.start_job
BeginJob(w) ==
    /\ main.pc = "running"
    /\ MayBegin(w)
    /\ next_job <= Len(jobs)
    /\ LET job == jobs[next_job]
           name == job_name(job)
           validation_results == validate_job(job)
           secret_results == validate_source_secrets(secrets, job.source_name, job.source_type)
       IN  IF RaisesBeforeTry(job)
           THEN /\ job_log' = [job_log EXCEPT ![next_job].future = "done",
                                              ![next_job].raised = TRUE]
                /\ main' = [main EXCEPT !.finished = Append(@, next_job)]
                /\ UNCHANGED <<worker, active_jobs, audit>>
           ELSE IF FirstBlocking(validation_results) # 0
           THEN /\ audit' = Append(audit, record_job(name, "VALIDATION_FAILED", 0))
                /\ job_log' = [job_log EXCEPT ![next_job].future = "done",
                                              ![next_job].status = "VALIDATION_FAILED"]
                /\ main' = [main EXCEPT !.finished = Append(@, next_job)]
                /\ UNCHANGED <<worker, active_jobs>>
           ELSE IF FirstFailed(secret_results) # 0
           THEN /\ audit' = Append(audit, record_job(name, "SECRETS_INVALID", 0))
                /\ job_log' = [job_log EXCEPT ![next_job].future = "done",
                                              ![next_job].status = "SECRETS_INVALID"]
                /\ main' = [main EXCEPT !.finished = Append(@, next_job)]
                /\ UNCHANGED <<worker, active_jobs>>
           ELSE /\ active_jobs' = start_job(active_jobs, name, job.source_type)
                /\ worker' = [worker EXCEPT ![w] = [IdleWorker EXCEPT
                                  !.pc = "get_circuit_breaker", !.job = next_job]]
                /\ job_log' = [job_log EXCEPT ![next_job].future = "running"]
                /\ UNCHANGED <<audit, main>>
    /\ next_job' = next_job + 1
    /\ UNCHANGED <<now, harness_vars, loader_vars, destination_vars, metrics_vars, validator_vars, jobs, options, secrets, breaker_heap, circuit_breakers,
                   completed_jobs, transfer_streak>>

\* _get_circuit_breaker, line 197: is there a breaker for the source
GetCircuitBreaker(w) ==
    /\ worker[w].pc = "get_circuit_breaker"
    /\ worker' = [worker EXCEPT ![w].pc =
                     IF jobs[worker[w].job].source_name \notin DOMAIN circuit_breakers
                     THEN "create_circuit_breaker"
                     ELSE "return_circuit_breaker"]
    /\ UNCHANGED <<now, harness_vars, loader_vars, destination_vars, metrics_vars, validator_vars, jobs, options, secrets, breaker_heap, circuit_breakers,
                   next_job, active_jobs, completed_jobs, audit, main, job_log,
                   transfer_streak>>

\* _get_circuit_breaker, lines 198-205: a new breaker is stored for the source
CreateCircuitBreaker(w) ==
    /\ worker[w].pc = "create_circuit_breaker"
    /\ breaker_heap' = Append(breaker_heap, new_circuit_breaker)
    /\ circuit_breakers' = (jobs[worker[w].job].source_name :> (Len(breaker_heap) + 1))
                               @@ circuit_breakers
    /\ worker' = [worker EXCEPT ![w].pc = "return_circuit_breaker"]
    /\ UNCHANGED <<now, harness_vars, loader_vars, destination_vars, metrics_vars, validator_vars, jobs, options, secrets, next_job, active_jobs,
                   completed_jobs, audit, main, job_log, transfer_streak>>

\* _get_circuit_breaker, line 206: the breaker now stored for the source is
\* the one the job's RetryHandler gets
ReturnCircuitBreaker(w) ==
    /\ worker[w].pc = "return_circuit_breaker"
    /\ worker' = [worker EXCEPT ![w].pc = "execute",
                                ![w].cb = circuit_breakers[jobs[worker[w].job].source_name]]
    /\ UNCHANGED <<now, harness_vars, loader_vars, destination_vars, metrics_vars, validator_vars, jobs, options, secrets, breaker_heap, circuit_breakers,
                   next_job, active_jobs, completed_jobs, audit, main, job_log,
                   transfer_streak>>

\* execute_job, lines 288-303: retry_handler.execute_with_retry on
\* _execute_api_job or _execute_database_job.  The transfer behaves as some tr
\* of Transfers; the call is taken from its entry to its end in one step.
ExecuteWithRetry(w) ==
    /\ worker[w].pc = "execute"
    /\ LET i == worker[w].job
           job == jobs[i]
           b == breaker_heap[worker[w].cb]
       IN  \E tr \in Transfers :
             LET func == IF job.source_type = "api" THEN execute_api_job(tr)
                         ELSE execute_database_job(tr)
             IN  \E end \in execute_with_retry(get_retry_config(job.source_type), func, b, now) :
                   /\ worker' = [worker EXCEPT ![w].pc = "record", ![w].run = end.run,
                                                ![w].transfer = tr,
                                                ![w].streak_before = transfer_streak[job.source_name]]
                   /\ breaker_heap' = [breaker_heap EXCEPT ![worker[w].cb] = end.cb]
                   /\ now' = end.now
                   /\ transfer_streak' = [transfer_streak EXCEPT ![job.source_name] =
                                             streak_after(@, tr, end.run.calls)]
                   /\ job_log' = [job_log EXCEPT
                          ![i].transfer_calls = end.run.calls,
                          ![i].chunk_size =
                              IF job.source_type = "api" \/ end.run.calls = 0 THEN None
                              ELSE determine_chunk_size(job, preflight_estimate(job, tr)[1],
                                                        preflight_estimate(job, tr)[2])]
    /\ UNCHANGED <<harness_vars, loader_vars, destination_vars, metrics_vars, validator_vars, jobs, options, secrets, circuit_breakers, next_job,
                   active_jobs, completed_jobs, audit, main>>

\* the status and row count execute_job records at lines 305-360: SUCCESS or
\* FAILED by the tuple execute_with_retry returned, ERROR when it raised (or
\* returned None, which line 296 or 300 cannot unpack)
job_outcome(r, tr) ==
    IF r.outcome = "returned"
    THEN IF execute_job_result(tr, r.result)[1]
         THEN [status |-> "SUCCESS", rows |-> execute_job_result(tr, r.result)[2]]
         ELSE [status |-> "FAILED", rows |-> 0]
    ELSE [status |-> "ERROR", rows |-> 0]

\* execute_job, lines 305-360: the audit record, metrics.complete_job and the
\* return value
RecordJob(w) ==
    /\ worker[w].pc = "record"
    /\ LET i == worker[w].job
           name == job_name(jobs[i])
           o == job_outcome(worker[w].run, worker[w].transfer)
           m == complete_job(active_jobs, completed_jobs, name, o.status, o.rows)
       IN  /\ audit' = Append(audit, record_job(name, o.status, o.rows))
           /\ active_jobs' = m.active
           /\ completed_jobs' = m.completed
           /\ job_log' = [job_log EXCEPT ![i].future = "done",
                                         ![i].status = o.status,
                                         ![i].returned = execute_job_returns[o.status]]
           /\ main' = [main EXCEPT !.finished = Append(@, i)]
    /\ worker' = [worker EXCEPT ![w] = IdleWorker]
    /\ UNCHANGED <<now, harness_vars, loader_vars, destination_vars, metrics_vars, validator_vars, jobs, options, secrets, breaker_heap, circuit_breakers,
                   next_job, transfer_streak>>

\* run_all, lines 708-716 (as_completed hands over the futures in the order
\* they finished) and 720-724: the return value of the next finished
\* execute_job is counted
CountJob ==
    /\ main.pc = "running"
    /\ main.counted < Len(main.finished)
    /\ main' = [main EXCEPT !.counted = @ + 1,
                            !.success_count =
                                IF job_log[main.finished[main.counted + 1]].returned
                                THEN @ + 1 ELSE @,
                            !.failed_count =
                                IF job_log[main.finished[main.counted + 1]].returned
                                THEN @ ELSE @ + 1]
    /\ UNCHANGED <<now, harness_vars, loader_vars, destination_vars, metrics_vars, validator_vars, jobs, options, secrets, breaker_heap, circuit_breakers,
                   worker, next_job, active_jobs, completed_jobs, audit, job_log,
                   transfer_streak>>

\* run_all, lines 729-752: every job is counted, the summary is logged
Summary ==
    /\ main.pc = "running"
    /\ main.counted = Len(jobs)
    /\ main' = [main EXCEPT !.pc = "done"]
    /\ UNCHANGED <<now, harness_vars, loader_vars, destination_vars, metrics_vars, validator_vars, jobs, options, secrets, breaker_heap, circuit_breakers,
                   worker, next_job, active_jobs, completed_jobs, audit, job_log,
                   transfer_streak>>

NextOrch ==
    \/ RunAllStart
    \/ \E w \in DOMAIN worker : BeginJob(w)
    \/ \E w \in DOMAIN worker : GetCircuitBreaker(w)
    \/ \E w \in DOMAIN worker : CreateCircuitBreaker(w)
    \/ \E w \in DOMAIN worker : ReturnCircuitBreaker(w)
    \/ \E w \in DOMAIN worker : ExecuteWithRetry(w)
    \/ \E w \in DOMAIN worker : RecordJob(w)
    \/ CountJob
    \/ Summary

SpecOrch == InitOrch /\ [][NextOrch]_vars

(***************************************************************************)
(* Properties of RetryHandler and CircuitBreaker, checked under Spec.      *)
(***************************************************************************)
cb == circuit_breaker
N == run.config.max_retries
Elapsed(b, t) == t - b._last_failure_time

\* func fails with a retryable error on every call
AlwaysFailsRetryably ==
    /\ run.func.final # "ok"
    /\ isinstance(run.func.final, run.config.retryable_exceptions)

\* func fails twice with a retryable error and then succeeds
FailsTwiceThenSucceeds ==
    /\ run.func.fails = 2
    /\ run.func.final = "ok"

\* the call of execute_with_retry has ended as C1 says: func was called
\* exactly N times, the last error was raised and N failures were recorded
ExhaustedAfterN ==
    /\ run.calls = N
    /\ run.outcome = "raised"
    /\ run.raised = func_outcome(run.func, N)
    /\ run.recorded_failures = N

\* C1 as stated: max_retries = N >= 1, the breaker starts CLOSED and func
\* always fails with a retryable error; then the call ends with func called
\* exactly N times, the last error raised and N failures recorded.
C1_AsStated ==
    (run.pc = "done" /\ N >= 1 /\ run.cb0._state = "CLOSED" /\ AlwaysFailsRetryably)
        => ExhaustedAfterN

\* C1 (amended): as C1, for a breaker that starts CLOSED with a failure count c
\* such that c + N <= failure_threshold: func is called exactly N times with
\* N - 1 sleeps in between, the last error is raised, N failures are recorded
\* and the breaker's failure count is c + N.
C1_ExhaustsRetries ==
    (/\ run.pc = "done"
     /\ N >= 1
     /\ run.cb0._state = "CLOSED"
     /\ run.cb0._failure_count + N <= cb.config.failure_threshold
     /\ AlwaysFailsRetryably)
        => /\ ExhaustedAfterN
           /\ run.sleeps = N - 1
           /\ cb._failure_count = run.cb0._failure_count + N

C1_Witness ==
    /\ run.pc = "done"
    /\ N = 3
    /\ run.cb0 = CircuitBreaker(cb.config)
    /\ cb.config.failure_threshold = 3
    /\ AlwaysFailsRetryably
    /\ run.calls = 3
    /\ run.outcome = "raised"
    /\ cb._state = "OPEN"

\* C2: a breaker in CLOSED becomes OPEN exactly by the record_failure that
\* makes failure_threshold failures recorded with no record_success in
\* between (allow_request is then false); a record_success in CLOSED resets
\* the failure count; with fewer consecutive failures the breaker is CLOSED.
C2_OpensAtThreshold ==
    /\ cb._state = "CLOSED" =>
          /\ hist.streak < cb.config.failure_threshold
          /\ cb._failure_count = hist.streak
    /\ (hist.prev._state = "CLOSED" /\ hist.op = "record_failure") =>
          /\ cb._state \in {"CLOSED", "OPEN"}
          /\ (cb._state = "OPEN") <=> (hist.streak = cb.config.failure_threshold)
    /\ (hist.prev._state = "CLOSED" /\ cb._state # "CLOSED") =>
          /\ hist.op = "record_failure"
          /\ cb._state = "OPEN"
          /\ ~allow_request(cb, hist.t)
    /\ (hist.prev._state = "CLOSED" /\ hist.op = "record_success") =>
          /\ cb._state = "CLOSED"
          /\ cb._failure_count = 0

C2_Witness ==
    /\ hist.prev._state = "CLOSED"
    /\ hist.op = "record_failure"
    /\ cb._state = "OPEN"
    /\ cb.config.failure_threshold = 3
    /\ hist.streak = 3
    /\ cb._failure_count = 3

\* C3: a read of the state of an OPEN breaker made less than timeout after
\* the last recorded failure leaves it OPEN (allow_request returns false); a
\* read made at or after that instant makes it HALF_OPEN (allow_request
\* returns true); nothing but such a read takes the breaker out of OPEN.
C3_LazyHalfOpen ==
    /\ cb._state = "OPEN" => cb._last_failure_time # None
    /\ (hist.op = "state" /\ hist.prev._state = "OPEN") =>
          IF Elapsed(hist.prev, hist.t) >= cb.config.timeout
          THEN cb._state = "HALF_OPEN" /\ allow_request(hist.prev, hist.t)
          ELSE cb._state = "OPEN" /\ ~allow_request(hist.prev, hist.t)
    /\ (hist.prev._state = "OPEN" /\ cb._state # "OPEN") =>
          /\ hist.op = "state"
          /\ cb._state = "HALF_OPEN"
          /\ Elapsed(hist.prev, hist.t) >= cb.config.timeout

C3_Witness ==
    /\ hist.op = "state"
    /\ hist.prev._state = "OPEN"
    /\ cb.config.timeout = 2
    /\ Elapsed(hist.prev, hist.t) = 2
    /\ cb._state = "HALF_OPEN"

\* C4: a record_failure in HALF_OPEN makes the breaker OPEN, whatever its
\* success count, and allow_request is false at every instant before a full
\* timeout has passed since that failure, and true from then on.
C4_HalfOpenFailureReopens ==
    (hist.op = "record_failure" /\ hist.prev._state = "HALF_OPEN") =>
        /\ cb._state = "OPEN"
        /\ cb._last_failure_time = hist.t
        /\ \A k \in 0..(cb.config.timeout - 1) : ~allow_request(cb, hist.t + k)
        /\ allow_request(cb, hist.t + cb.config.timeout)

C4_Witness ==
    /\ hist.op = "record_failure"
    /\ hist.prev._state = "HALF_OPEN"
    /\ hist.prev._success_count = 1
    /\ cb._state = "OPEN"

\* C5: in HALF_OPEN the record_success that makes success_threshold successes
\* with no failure in between leaves the breaker CLOSED with both counts 0;
\* a record_success before that leaves it HALF_OPEN.
C5_HalfOpenSuccessCloses ==
    /\ cb._state = "HALF_OPEN" =>
          hist.half_open_successes < cb.config.success_threshold
    /\ (hist.op = "record_success" /\ hist.prev._state = "HALF_OPEN") =>
          IF hist.half_open_successes >= cb.config.success_threshold
          THEN /\ cb._state = "CLOSED"
               /\ cb._failure_count = 0
               /\ cb._success_count = 0
          ELSE cb._state = "HALF_OPEN"

C5_Witness ==
    /\ hist.op = "record_success"
    /\ hist.prev._state = "HALF_OPEN"
    /\ hist.prev._failure_count > 0
    /\ cb.config.success_threshold = 2
    /\ hist.half_open_successes = 2
    /\ cb._state = "CLOSED"

\* C6: once the breaker was found OPEN at the top of an attempt, func is not
\* called again in this call of execute_with_retry, there is no sleep and no
\* further attempt, and the call ends by raising (the RuntimeError of line 214).
C6_FailFast ==
    run.rejected =>
        /\ run.calls = run.calls_when_rejected
        /\ run.attempt = run.attempt_when_rejected
        /\ run.sleeps = run.attempt_when_rejected - 1
        /\ run.pc \in {"except", "should_retry", "done"}
        /\ run.pc = "done" => (run.outcome = "raised" /\ run.raised = "RuntimeError")

C6_Witness ==
    /\ run.pc = "done"
    /\ run.rejected
    /\ N >= 2
    /\ run.calls = 0
    /\ run.outcome = "raised"

\* the call ended as C7 says: three calls of func, the third one's value
\* returned, the breaker CLOSED with its failure count reset
ReturnedThirdResult ==
    /\ run.calls = 3
    /\ run.outcome = "returned"
    /\ run.result = 3
    /\ run.recorded_successes = 1
    /\ cb._state = "CLOSED"
    /\ cb._failure_count = 0

\* C7 as stated: max_retries >= 3, the breaker starts CLOSED, func fails twice
\* with a retryable error and then succeeds; then func is called exactly 3
\* times, the third value is returned and the breaker ends CLOSED, reset.
C7_AsStated ==
    (run.pc = "done" /\ N >= 3 /\ run.cb0._state = "CLOSED" /\ FailsTwiceThenSucceeds)
        => ReturnedThirdResult

\* C7 (amended): as C7, for a breaker that starts CLOSED with a failure count
\* c such that c + 2 < failure_threshold.
C7_SucceedsOnThird ==
    (/\ run.pc = "done"
     /\ N >= 3
     /\ run.cb0._state = "CLOSED"
     /\ run.cb0._failure_count + 2 < cb.config.failure_threshold
     /\ FailsTwiceThenSucceeds)
        => /\ ReturnedThirdResult
           /\ run.recorded_failures = 2
           /\ run.sleeps = 2

C7_Witness ==
    /\ run.pc = "done"
    /\ N = 3
    /\ run.cb0 = CircuitBreaker(cb.config)
    /\ FailsTwiceThenSucceeds
    /\ run.outcome = "returned"
    /\ run.calls = 3

\* func's error that ends its retryable failures is not of a retryable class
FinalNotRetryable ==
    /\ run.func.final # "ok"
    /\ ~isinstance(run.func.final, run.config.retryable_exceptions)

\* C8: once func has raised an error that is not of a retryable class, func is
\* not called again and there is no sleep, and the call ends by raising that
\* error, whatever retries remain (with that error on the first call: func is
\* called exactly once).
C8_NonRetryableAborts ==
    FinalNotRetryable =>
        /\ run.calls <= run.func.fails + 1
        /\ run.calls = run.func.fails + 1 =>
              /\ run.pc \in {"except", "should_retry", "done"}
              /\ run.sleeps = run.func.fails
              /\ run.attempt = run.calls
              /\ run.pc = "done" =>
                    (run.outcome = "raised" /\ run.raised = run.func.final)

C8_Witness ==
    /\ run.pc = "done"
    /\ FinalNotRetryable
    /\ run.func.fails = 0
    /\ N = 3
    /\ run.calls = 1
    /\ run.sleeps = 0
    /\ run.raised = run.func.final


(***************************************************************************)
(* Properties of IngestionOrchestrator, checked under SpecOrch.            *)
(***************************************************************************)
\* the job thread w runs, once its execute_with_retry has ended
JobOf(w) == jobs[worker[w].job]

\* the outcome of the last invocation of the transfer of w's job
LastAttempt(w) == func_outcome(worker[w].transfer, worker[w].run.calls)

\* C9 as stated: a job whose transfer was invoked, was not cut short by the
\* breaker and failed at its last invocation with a retryable error
\* (connection, timeout, I/O) gets its failed status only after max_retries
\* invocations of the transfer, 3 for a database source and 5 for an API source.
C9_AsStated ==
    \A w \in DOMAIN worker :
        (/\ worker[w].pc = "record"
         /\ worker[w].run.calls >= 1
         /\ ~worker[w].run.rejected
         /\ isinstance(LastAttempt(w), DEFAULT_RETRYABLE_EXCEPTIONS))
            => worker[w].run.calls = get_retry_config(JobOf(w).source_type).max_retries

\* C10 as stated: once 3 transfer attempts in a row against one source name
\* have failed, the breaker of that source is OPEN until its timeout has elapsed.
C10_AsStated ==
    \A src \in DOMAIN circuit_breakers :
        LET b == breaker_heap[circuit_breakers[src]]
        IN  transfer_streak[src] >= b.config.failure_threshold
                => \/ b._state = "OPEN"
                   \/ /\ b._last_failure_time # None
                      /\ Elapsed(b, now) >= b.config.timeout

\* validate_job ends the job with an error or a critical result
IsInvalid(job) == FirstBlocking(validate_job(job)) # 0

\* run_all has returned
RunAllEnded == main.pc \in {"done", "aborted", "returned_no_jobs"}

\* the jobs that ended with status s
WithStatus(s) == { i \in DOMAIN jobs : job_log[i].status = s }

\* the batch holds a job that fails validation and a job that is valid
MixedBatch ==
    /\ \E i \in DOMAIN jobs : IsInvalid(jobs[i])
    /\ \E i \in DOMAIN jobs : ~IsInvalid(jobs[i])

\* C11 as stated: when run_all with skip_validation = False has returned on a
\* batch that holds a job failing validation with an error and valid jobs, the
\* invalid job was not executed, every valid job was handled by execute_job
\* and the summary counts the valid jobs that succeeded.
C11_AsStated ==
    (RunAllEnded /\ ~options.skip_validation /\ MixedBatch)
        => /\ \A i \in DOMAIN jobs :
                IF IsInvalid(jobs[i])
                THEN job_log[i].status \in {"none", "VALIDATION_FAILED"}
                ELSE job_log[i].status # "none"
           /\ main.success_count = Cardinality(WithStatus("SUCCESS"))

\* execute_job has ended for job i
Finished(i) == job_log[i].future = "done"

\* the completed-jobs list of the Metrics Collector holds a record of job i
\* with the status the job ended with
InCompletedJobs(i) ==
    \E k \in DOMAIN completed_jobs :
        /\ completed_jobs[k].job_name = job_name(jobs[i])
        /\ completed_jobs[k].status = job_log[i].status

\* the audit sink has received a record of job i with the status it ended with
InAudit(i) ==
    \E k \in DOMAIN audit :
        /\ audit[k].job_name = job_name(jobs[i])
        /\ audit[k].status = job_log[i].status

\* C12 as stated: every job execute_job has handled, whichever status it ended
\* with, has a record with that status in the completed-jobs list of the
\* Metrics Collector and in the audit sink.
C12_AsStated ==
    \A i \in DOMAIN jobs : Finished(i) => (InCompletedJobs(i) /\ InAudit(i))

\* execute_job has been called for job i (the loops of lines 700 and 719 call
\* it once per element of jobs)
Called(i) == job_log[i].future # "pending"

\* C13 as stated: when run_all has returned, execute_job has been called once
\* for each job load_jobs returned and has ended for each of them, also when
\* execute_job raised for one of them; with an empty list run_all returns
\* without calling execute_job.
C13_AsStated ==
    RunAllEnded
        => /\ \A i \in DOMAIN jobs : Called(i) /\ Finished(i)
           /\ next_job = Len(jobs) + 1
           /\ jobs = <<>> => main.pc = "returned_no_jobs"

\* C14 as stated: a job during whose processing an exception was raised before
\* the transfer started (here: while execute_job read the job's fields) ends
\* with status ERROR, recorded in the audit sink and in Metrics.
C14_AsStated ==
    \A i \in DOMAIN jobs :
        (Finished(i) /\ job_log[i].raised)
            => /\ job_log[i].status = "ERROR"
               /\ InAudit(i)
               /\ InCompletedJobs(i)

\* thread w holds the RetryHandler of its job, and with it a breaker
HoldsBreaker(w) == worker[w].pc \in {"execute", "record"}

\* C15 as stated: in parallel mode at most one CircuitBreaker is ever created
\* per source name, two jobs with the same source name use the same breaker
\* and two jobs with different source names use different breakers.
C15_AsStated ==
    options.parallel
        => /\ Len(breaker_heap) <= Cardinality(DOMAIN circuit_breakers)
           /\ \A w1, w2 \in DOMAIN worker :
                (HoldsBreaker(w1) /\ HoldsBreaker(w2))
                    => ((JobOf(w1).source_name = JobOf(w2).source_name)
                            <=> (worker[w1].cb = worker[w2].cb))

\* the jobs that called metrics.start_job and later metrics.complete_job
Completed == { i \in DOMAIN jobs :
                 Finished(i) /\ job_log[i].status \in {"SUCCESS", "FAILED", "ERROR"} }

\* C16 as stated: in parallel mode each job that called start_job and later
\* complete_job has its own record in the completed-jobs list, with the status
\* passed to its complete_job: the list holds as many records as there are such
\* jobs, and a record with its status for each of them.
C16_AsStated ==
    options.parallel
        => /\ Len(completed_jobs) = Cardinality(Completed)
           /\ \A i \in Completed : InCompletedJobs(i)

\* C17: in sequential mode execute_job is called on the jobs in list order,
\* and a job is not started before execute_job has returned or raised for
\* every job before it in the list.
C17_SequentialInOrder ==
    ~options.parallel
        => \A i, j \in DOMAIN jobs : (i < j /\ Called(j)) => Finished(i)

C17_Witness ==
    /\ ~options.parallel
    /\ Len(jobs) = 3
    /\ job_log[1].raised
    /\ job_log[2].status = "FAILED"
    /\ job_log[3].future = "running"

\* the secrets file has no complete entry for the source of the job
CredentialsMissing(job) ==
    \/ ~secrets.has_sources
    \/ job.source_name \notin DOMAIN secrets.sources
    \/ (IF job.source_type = "api" THEN REQUIRED_API_KEYS ELSE REQUIRED_DB_KEYS)
           \ secrets.sources[job.source_name] # {}

ConfigKeys == {"host", "password", "base_url"}

\* a configuration of the given keys read from a backend
ConfigFrom(backend, keys) == [is_none |-> FALSE, items |-> [k \in keys |-> backend]]

\* None, where a configuration is expected
NoConfig == [is_none |-> TRUE, items |-> <<>>]

\* what the credential backends can hold for the source looked up:
\*   databricks  whether the process runs in Databricks, and the keys of the
\*               source its secret scope holds
\*   keyvault    whether use_keyvault and self.keyvault are set, whether the
\*               call of keyvault.get_source_config raises, and the keys of
\*               the source the vault holds
\*   environ     the keys for which a variable DLT_<SOURCE>_<KEY> is set
\*   toml        the secrets file: it cannot be loaded, it has no sources
\*               section, no entry for the source, or an entry with keys
CredentialStores ==
    [databricks : [available : {FALSE}, keys : {{}}]
                      \cup [available : {TRUE}, keys : SUBSET ConfigKeys],
     keyvault   : [enabled : {FALSE}, raises : {FALSE}, keys : {{}}]
                      \cup [enabled : {TRUE}, raises : {TRUE}, keys : {{}}]
                      \cup [enabled : {TRUE}, raises : {FALSE}, keys : SUBSET ConfigKeys],
     environ    : SUBSET ConfigKeys,
     toml       : [kind : {"unreadable", "no_sources", "no_entry"}, keys : {{}}]
                      \cup [kind : {"entry"}, keys : SUBSET ConfigKeys]]

\* not config: None and the empty dict are both falsy
Falsy(config) == config.is_none \/ DOMAIN config.items = {}

\* ConfigLoader._load_from_databricks: None outside Databricks and when the
\* scope holds no key of the source
load_from_databricks(stores) ==
    IF ~stores.databricks.available \/ stores.databricks.keys = {}
    THEN NoConfig
    ELSE ConfigFrom("databricks", stores.databricks.keys)

\* KeyVaultManager.get_source_config: the secrets that can be read; a secret
\* that cannot is skipped
keyvault_get_source_config(stores) == ConfigFrom("keyvault", stores.keyvault.keys)

\* ConfigLoader._load_from_env: None when no variable of the source is set
load_from_env(stores) ==
    IF stores.environ = {} THEN NoConfig ELSE ConfigFrom("environ", stores.environ)

\* a get_source_config that adds the keys of every backend to the result
get_source_config_merged(stores) ==
    LET all == stores.databricks.keys \cup stores.keyvault.keys
                   \cup stores.environ \cup stores.toml.keys
    IN  IF all = {}
        THEN [pc |-> "raised", raised |-> "KeyError", config |-> NoConfig,
              consulted |-> <<"databricks", "keyvault", "environ", "toml">>]
        ELSE [pc |-> "returned", raised |-> "None",
              config |-> [is_none |-> FALSE,
                          items |-> [k \in all |->
                                       IF k \in stores.databricks.keys THEN "databricks"
                                       ELSE IF k \in stores.keyvault.keys THEN "keyvault"
                                       ELSE IF k \in stores.environ THEN "environ"
                                       ELSE "toml"]],
              consulted |-> <<"databricks", "keyvault", "environ", "toml">>]

\* a vault step that does not catch what the vault lookup raises
vault_lookup_uncaught(stores) ==
    IF ~stores.keyvault.enabled THEN [raised |-> FALSE, config |-> NoConfig]
    ELSE IF stores.keyvault.raises THEN [raised |-> TRUE, config |-> NoConfig]
    ELSE [raised |-> FALSE, config |-> keyvault_get_source_config(stores)]

\* get_source_config, lines 175-183: the vault is consulted only when
\* use_keyvault and self.keyvault are set; what its lookup raises is caught
\* and logged, and nothing is raised to the lines after
vault_lookup(stores) ==
    IF ~stores.keyvault.enabled THEN [raised |-> FALSE, config |-> NoConfig]
    ELSE IF stores.keyvault.raises THEN [raised |-> FALSE, config |-> NoConfig]
    ELSE [raised |-> FALSE, config |-> keyvault_get_source_config(stores)]

\* get_source_config is called at most MaxLookups times on a ConfigLoader
MaxLookups == 2

Range(f) == { f[x] : x \in DOMAIN f }

\* ConfigLoader.load_secrets, lines 147-158: how often toml.load has read the
\* file after the call, given how often it had before.  Nothing of an earlier
\* call is kept: a file that exists is loaded again.  A file without sources
\* section stands also for a file that does not exist, which is not loaded.
load_secrets(loads, stores) ==
    IF stores.toml.kind = "no_sources" THEN loads ELSE loads + 1

\* ConfigLoader.get_source_config: the configuration returned or the error
\* raised, and the backends consulted, in the order they were
get_source_config(stores) ==
    LET db_config == load_from_databricks(stores)
        try_vault == stores.keyvault.enabled
        vault == vault_lookup(stores)
        env_config == load_from_env(stores)
        c1 == <<"databricks">>
        c2 == IF try_vault THEN Append(c1, "keyvault") ELSE c1
        c3 == Append(c2, "environ")
        c4 == Append(c3, "toml")
    IN  IF ~Falsy(db_config)
        THEN [pc |-> "returned", raised |-> "None", config |-> db_config, consulted |-> c1]
        ELSE IF vault.raised
        THEN [pc |-> "raised", raised |-> "Exception", config |-> NoConfig, consulted |-> c2]
        ELSE IF ~Falsy(vault.config)
        THEN [pc |-> "returned", raised |-> "None", config |-> vault.config, consulted |-> c2]
        ELSE IF ~Falsy(env_config)
        THEN [pc |-> "returned", raised |-> "None", config |-> env_config, consulted |-> c3]
        ELSE IF stores.toml.kind = "entry"
        THEN [pc |-> "returned", raised |-> "None",
              config |-> ConfigFrom("toml", stores.toml.keys), consulted |-> c4]
        ELSE [pc |-> "raised", raised |-> "KeyError", config |-> NoConfig, consulted |-> c4]

\* a ConfigLoader and the backends it will consult
InitLoader ==
    /\ now = 0
    /\ NoCollector
    /\ NoValidator
    /\ NoDestinationLookup
    /\ NoHarness
    /\ NoOrchestrator
    /\ credential_stores \in CredentialStores
    /\ lookup = NoLookup
    /\ secrets_file = NoLoads
    /\ secret_check = NoSecretCheck

\* get_source_config is called for the source; the call of load_secrets at
\* line 200 is made when no earlier backend returned
GetSourceConfig ==
    /\ secrets_file.lookups < MaxLookups
    /\ credential_stores \in CredentialStores
    /\ lookup' = get_source_config(credential_stores)
    /\ secrets_file' =
          [lookups |-> secrets_file.lookups + 1,
           loads |-> IF "toml" \in Range(get_source_config(credential_stores).consulted)
                     THEN load_secrets(secrets_file.loads, credential_stores)
                     ELSE secrets_file.loads]
    /\ UNCHANGED <<now, harness_vars, orch_vars, metrics_vars, validator_vars, destination_vars,
                   credential_stores, secret_check>>

NextLoader == GetSourceConfig

SpecLoader == InitLoader /\ [][NextLoader]_vars

(***************************************************************************)
(* Properties of ConfigLoader.get_source_config, checked under SpecLoader.  *)
(***************************************************************************)
Backends == <<"databricks", "keyvault", "environ", "toml">>

\* the keys backend b yields for the source; the vault yields keys only when
\* it is configured and its lookup does not raise
Yields(b) ==
    CASE b = "databricks" -> IF credential_stores.databricks.available
                             THEN credential_stores.databricks.keys ELSE {}
      [] b = "keyvault" -> IF credential_stores.keyvault.enabled
                              /\ ~credential_stores.keyvault.raises
                           THEN credential_stores.keyvault.keys ELSE {}
      [] b = "environ" -> credential_stores.environ
      [] b = "toml" -> IF credential_stores.toml.kind = "entry"
                       THEN credential_stores.toml.keys ELSE {}

\* position i is the first backend, in the order of Backends, that yields a
\* non-empty map
FirstHit(i) ==
    /\ Yields(Backends[i]) # {}
    /\ \A k \in 1..(i - 1) : Yields(Backends[k]) = {}

Looked == lookup.pc # "none"

\* C19: get_source_config returns exactly the map of the first backend, in the
\* order platform secret store, vault (only when configured), environment
\* variables, secrets file, that yields a non-empty map: its keys and values
\* are those of that backend alone, and no later backend is consulted.
C19_FirstHitWins ==
    \A i \in DOMAIN Backends :
        (Looked /\ FirstHit(i))
            => /\ lookup.pc = "returned"
               /\ lookup.config = ConfigFrom(Backends[i], Yields(Backends[i]))
               /\ \A k \in (i + 1)..Len(Backends) :
                    \A c \in DOMAIN lookup.consulted : lookup.consulted[c] # Backends[k]
               /\ ~credential_stores.keyvault.enabled
                    => \A c \in DOMAIN lookup.consulted : lookup.consulted[c] # "keyvault"

\* the environment holds the host only, the stores before it hold nothing and
\* the secrets file holds host and password: the host of the environment is
\* returned alone
C19_Witness ==
    /\ Looked
    /\ credential_stores.databricks = [available |-> TRUE, keys |-> {}]
    /\ credential_stores.keyvault = [enabled |-> TRUE, raises |-> FALSE, keys |-> {}]
    /\ credential_stores.environ = {"host"}
    /\ credential_stores.toml = [kind |-> "entry", keys |-> {"host", "password"}]
    /\ lookup.config = ConfigFrom("environ", {"host"})
    /\ lookup.consulted = <<"databricks", "keyvault", "environ">>

\* C20: when the platform secret store is unavailable and the vault lookup
\* raises, get_source_config does not raise what the vault raised: it consults
\* the environment variables and returns their map when there is one, else
\* the entry of the secrets file when there is one.
C20_VaultFailureFallsThrough ==
    (/\ Looked
     /\ ~credential_stores.databricks.available
     /\ credential_stores.keyvault.enabled
     /\ credential_stores.keyvault.raises)
        => /\ lookup.raised # "Exception"
           /\ \E c \in DOMAIN lookup.consulted : lookup.consulted[c] = "environ"
           /\ credential_stores.environ # {}
                => /\ lookup.pc = "returned"
                   /\ lookup.config = ConfigFrom("environ", credential_stores.environ)
           /\ (credential_stores.environ = {} /\ credential_stores.toml.kind = "entry")
                => /\ lookup.pc = "returned"
                   /\ lookup.config = ConfigFrom("toml", credential_stores.toml.keys)

\* the vault lookup raised, no variable is set and the entry of the secrets
\* file is returned
C20_Witness ==
    /\ Looked
    /\ ~credential_stores.databricks.available
    /\ credential_stores.keyvault.enabled /\ credential_stores.keyvault.raises
    /\ credential_stores.environ = {}
    /\ lookup.pc = "returned"
    /\ lookup.config = ConfigFrom("toml", {"host", "password"})

\* C21 as stated: get_source_config raises KeyError when no backend holds a
\* configuration for the source, and what it returns is never None nor an
\* empty map.
C21_AsStated ==
    Looked
        => /\ (\A i \in DOMAIN Backends : Yields(Backends[i]) = {}
                 /\ credential_stores.toml.kind # "entry")
                => (lookup.pc = "raised" /\ lookup.raised = "KeyError")
           /\ lookup.pc = "returned" => ~Falsy(lookup.config)

(***************************************************************************)
(* MetricsCollector.get_health_score (metrics.py).  Python computes the    *)
(* score in floating point; here it is the exact fraction num / den, which *)
(* is not reduced.                                                         *)
(***************************************************************************)
MaxCompletedJobs == 10
MaxRetryCount == 11
MaxErrorCount == 5

RECURSIVE sum(_)
\* the builtin sum over a list of integers
sum(s) == IF s = <<>> THEN 0 ELSE Head(s) + sum(Tail(s))

\* a < b for fractions with positive denominators
FracLess(a, b) == a.num * b.den < b.num * a.den

\* the variant of get_health_score whose retry penalty has no ceiling
get_health_score_uncapped(completed) ==
    IF Len(completed) = 0
    THEN [num |-> 100, den |-> 1]
    ELSE LET success_count == sum([i \in DOMAIN completed |->
                                     IF completed[i].status = "SUCCESS" THEN 1 ELSE 0])
             total_retries == sum([i \in DOMAIN completed |-> completed[i].retry_count])
             total_errors  == sum([i \in DOMAIN completed |-> completed[i].error_count])
             error_penalty == Min(total_errors * 5, 20)
             n             == Len(completed)
         IN  [num |-> success_count * 60 + (20 - total_retries * 2) * n
                          + (20 - error_penalty) * n,
              den |-> n]

\* get_health_score, lines 287-309
get_health_score(completed) ==
    IF Len(completed) = 0
    THEN [num |-> 100, den |-> 1]
    ELSE LET success_count == sum([i \in DOMAIN completed |->
                                     IF completed[i].status = "SUCCESS" THEN 1 ELSE 0])
             \* success_rate = success_count / n, kept as a fraction over n
             n             == Len(completed)
             total_retries == sum([i \in DOMAIN completed |-> completed[i].retry_count])
             retry_penalty == Min(total_retries * 2, 20)
             total_errors  == sum([i \in DOMAIN completed |-> completed[i].error_count])
             error_penalty == Min(total_errors * 5, 20)
             score  == [num |-> success_count * 60 + (20 - retry_penalty) * n
                                    + (20 - error_penalty) * n,
                        den |-> n]
             hundred == [num |-> 100, den |-> 1]
             zero    == [num |-> 0, den |-> 1]
             \* min(100, score) is score only when score < 100
             capped == IF FracLess(score, hundred) THEN score ELSE hundred
             \* max(0, capped) is capped only when capped > 0
         IN  IF FracLess(zero, capped) THEN capped ELSE zero

\* the PipelineMetrics of a job that has completed (start_job, then update_job
\* and complete_job)
CompletedMetrics(status, retry_count, error_count) ==
    [start_job(<<>>, "pg_main.orders", "postgresql")["pg_main.orders"] EXCEPT
        !.status = status, !.retry_count = retry_count, !.error_count = error_count]

\* the _completed_jobs lists the score is computed on: n jobs of which s ended
\* SUCCESS (the first s or the last s) and the others FAILED, with r retries
\* on the first job and e errors on the last one
CompletedLists ==
    {<<>>} \cup
    { [i \in 1..n |->
          CompletedMetrics(IF (first /\ i <= s) \/ (~first /\ i > n - s)
                           THEN "SUCCESS" ELSE "FAILED",
                           IF i = 1 THEN r ELSE 0,
                           IF i = n THEN e ELSE 0)] :
        <<n, s, r, e, first>> \in
            { t \in (1..MaxCompletedJobs) \X (0..MaxCompletedJobs)
                    \X (0..MaxRetryCount) \X (0..MaxErrorCount) \X BOOLEAN :
                t[2] <= t[1] } }

\* a collector whose jobs have completed, before get_health_score is called
InitHealth ==
    /\ now = 0
    /\ NoHarness
    /\ NoOrchestrator
    /\ NoLoader
    /\ NoValidator
    /\ NoDestinationLookup
    /\ collector \in {[MetricsCollector EXCEPT !.completed_jobs = c] : c \in CompletedLists}
    /\ health = NoScore

\* a call of get_health_score()
GetHealthScore ==
    /\ health' = get_health_score(collector.completed_jobs)
    /\ UNCHANGED <<now, harness_vars, orch_vars, loader_vars, destination_vars, validator_vars, collector>>

NextHealth == GetHealthScore

SpecHealth == InitHealth /\ [][NextHealth]_vars

(***************************************************************************)
(* Properties of get_health_score, checked under SpecHealth.               *)
(***************************************************************************)
\* N, S, R and E of the completed jobs
CompletedN == Len(collector.completed_jobs)

CompletedS ==
    Cardinality({i \in DOMAIN collector.completed_jobs :
                    collector.completed_jobs[i].status = "SUCCESS"})

CompletedR ==
    sum([i \in DOMAIN collector.completed_jobs |-> collector.completed_jobs[i].retry_count])

CompletedE ==
    sum([i \in DOMAIN collector.completed_jobs |-> collector.completed_jobs[i].error_count])

\* C22: get_health_score() returns 100 when no job has completed, and otherwise
\* 60*S/N + (20 - min(20, 2*R)) + (20 - min(20, 5*E)) clamped to [0, 100];
\* N = 10, S = 8, R = 0, E = 0 gives 88.  Both sides are multiplied by N.
C22_HealthScore ==
    health # NoScore
        => LET count == CompletedN
               raw == 60 * CompletedS + count * (20 - Min(20, 2 * CompletedR))
                                      + count * (20 - Min(20, 5 * CompletedE))
           IN  /\ count = 0 => health.num = 100 * health.den
               /\ count > 0 => health.num * count = health.den * Max(0, Min(100 * count, raw))
               /\ (count = 10 /\ CompletedS = 8 /\ CompletedR = 0 /\ CompletedE = 0)
                    => health.num = 88 * health.den

\* the score of ten completed jobs, eight of them SUCCESS, without retries or errors
C22_Witness ==
    /\ health # NoScore
    /\ CompletedN = 10
    /\ CompletedS = 8
    /\ CompletedR = 0
    /\ CompletedE = 0

(***************************************************************************)
(* ConfigValidator on its own (src/core/validators.py): validate_job and   *)
(* validate_all_jobs applied to job lists a caller holds.                  *)
(***************************************************************************)
MaxBatch == 3           \* validate_all_jobs is given at most MaxBatch jobs

\* the job dicts validate_job is applied to; a column that is None or that the
\* dict lacks holds NoValue
JobDescriptors ==
    [source_type : {"postgresql", "PostgreSQL", "oracle", "FTP", NoValue},
     source_name : {"pg_main", ""},
     table_name : {"orders", "order-items"},
     load_type : {"FULL", "INCREMENTAL", "incremental", "MERGE"},
     enabled : {"Y"},
     watermark_column : {NoValue, "", " ", "updated_at"},
     chunk_size : {None, NotANumber, 500, 50000},
     schema_name : {NoValue, "hr"}]

\* the jobs the batches given to validate_all_jobs are made of: a valid one,
\* one with warnings only, one with an error and one with a critical result
BatchCatalog ==
    { Job("postgresql", "pg_main", "orders", "FULL", NoValue, None),
      Job("postgresql", "pg_main", "order-items", "FULL", NoValue, 500),
      Job("postgresql", "pg_main", "users", "INCREMENTAL", NoValue, None),
      Job("postgresql", "", "customers", "FULL", NoValue, None) }

\* a caller holding one job dict, or a batch
InitValidate ==
    /\ now = 0
    /\ NoHarness
    /\ NoOrchestrator
    /\ NoLoader
    /\ NoCollector
    /\ NoDestinationLookup
    /\ descriptors \in {<<j>> : j \in JobDescriptors}
                       \cup UNION {[1..n -> BatchCatalog] : n \in 0..MaxBatch}
    /\ validation = NoValidation

\* validate_job(descriptors[i]); the method only reads the dict
ValidateJob(i) ==
    /\ validation' = [op |-> "validate_job", job |-> i, given |-> descriptors,
                      all_valid |-> TRUE, results |-> validate_job(descriptors[i])]
    /\ UNCHANGED <<now, harness_vars, orch_vars, loader_vars, destination_vars, metrics_vars, descriptors>>

\* validate_all_jobs(descriptors); the method only reads the list
ValidateAllJobs ==
    /\ validation' = [op |-> "validate_all_jobs", job |-> 0, given |-> descriptors,
                      all_valid |-> validate_all_jobs(descriptors)[1],
                      results |-> validate_all_jobs(descriptors)[2]]
    /\ UNCHANGED <<now, harness_vars, orch_vars, loader_vars, destination_vars, metrics_vars, descriptors>>

NextValidate ==
    \/ \E i \in DOMAIN descriptors : ValidateJob(i)
    \/ ValidateAllJobs

SpecValidate == InitValidate /\ [][NextValidate]_vars

(***************************************************************************)
(* Properties of the validator, checked under SpecValidate.                *)
(***************************************************************************)
\* the job validate_job was last applied to
Validated == descriptors[validation.job]

\* every required column of the job is present and not blank
HasRequiredFields(job) ==
    \A i \in DOMAIN REQUIRED_COLUMNS :
        job[REQUIRED_COLUMNS[i]] \notin {NoValue, "", " "}

\* the job is INCREMENTAL and its watermark column is empty or absent
IncrementalWithoutWatermark(job) ==
    /\ job.load_type \in {"INCREMENTAL", "incremental"}
    /\ job.watermark_column \in {NoValue, ""}

\* some result is failing, of severity ERROR, and its message has "watermark"
HasWatermarkError(results) ==
    \E k \in DOMAIN results :
        /\ ~results[k].passed
        /\ results[k].severity = "error"
        /\ results[k].message[1] = "INCREMENTAL load requires 'watermark_column'"

HasBlockingResult(job) ==
    \E k \in DOMAIN validate_job(job) :
        /\ ~validate_job(job)[k].passed
        /\ validate_job(job)[k].severity \in {"error", "critical"}

\* the results of validate_job on the first n jobs, in job order
RECURSIVE ResultsInOrder(_)
ResultsInOrder(n) ==
    IF n = 0 THEN <<>>
    ELSE ResultsInOrder(n - 1) \o validate_job(descriptors[n])

\* C26: validate_all_jobs(jobs) returns all_valid = False exactly when at least
\* one job has a failing result of severity ERROR or CRITICAL, returns the
\* per-job results of validate_job concatenated in job order, and leaves the
\* job list and every job unchanged.
C26_ValidateAll ==
    validation.op = "validate_all_jobs"
        => /\ ~validation.all_valid
                <=> \E i \in DOMAIN descriptors : HasBlockingResult(descriptors[i])
           /\ validation.results = ResultsInOrder(Len(descriptors))
           /\ descriptors = validation.given

\* validate_all_jobs was given three jobs of which only the last one has a
\* blocking result and the first one has warnings only; it returned False
C26_Witness ==
    /\ validation.op = "validate_all_jobs"
    /\ Len(descriptors) = 3
    /\ ~validation.all_valid
    /\ ~HasBlockingResult(descriptors[1])
    /\ ~HasBlockingResult(descriptors[2])
    /\ HasBlockingResult(descriptors[3])
    /\ \E k \in DOMAIN validate_job(descriptors[1]) : ~validate_job(descriptors[1])[k].passed

(***************************************************************************)
(* Further properties of execute_job, checked under SpecOrch.              *)
(***************************************************************************)
\* the job has a chunk_size override that is a number outside [1000, 10000000]
ChunkSizeOutOfRange(job) ==
    /\ job.chunk_size \notin {None, NotANumber}
    /\ (job.chunk_size < 1000 \/ job.chunk_size > 10000000)

\* the transfer of database job i was invoked
Transferred(i) == jobs[i].source_type # "api" /\ job_log[i].transfer_calls > 0

\* C24 as stated: for a job whose chunk-size override lies outside
\* [1000, 10,000,000], the chunk size used for the job's transfer is the
\* default chunk size, not the out-of-range value.
C24_AsStated ==
    \A i \in DOMAIN jobs :
        (ChunkSizeOutOfRange(jobs[i]) /\ Transferred(i))
            => /\ job_log[i].chunk_size = 100000
               /\ job_log[i].chunk_size # jobs[i].chunk_size

\* validate_job has a reason to fail the job with ERROR or CRITICAL: a blank
\* required field, an unknown source type or load mode, INCREMENTAL without a
\* watermark column, oracle without a schema name
BlockedByValidation(job) ==
    \/ ~HasRequiredFields(job)
    \/ job.source_type \notin {"postgresql", "oracle", "mssql", "azure_sql", "api"}
    \/ job.load_type \notin {"FULL", "INCREMENTAL"}
    \/ IncrementalWithoutWatermark(job)
    \/ (job.source_type = "oracle" /\ job.schema_name \in {NoValue, ""})

\* validate_job has only WARNINGs against the job
WarningsOnly(job) ==
    /\ ~BlockedByValidation(job)
    /\ \/ job.table_name \notin {"orders", "customers", "users"}
       \/ ChunkSizeOutOfRange(job)
       \/ job.chunk_size = NotANumber

\* execute_job has called metrics.start_job for job i
Started(i) ==
    \/ job_log[i].future = "running"
    \/ job_log[i].status \in {"SUCCESS", "FAILED", "ERROR"}

\* C25: execute_job starts metrics tracking and the transfer of a job only if
\* validate_job produced no failing result of severity ERROR or CRITICAL; a job
\* whose only failing results are WARNINGs is not ended by validation, and is
\* started and transferred when its source's secrets are valid.
C25_WarningsDoNotBlock ==
    \A i \in DOMAIN jobs :
        /\ (Started(i) \/ job_log[i].transfer_calls > 0) => ~BlockedByValidation(jobs[i])
        /\ (Finished(i) /\ WarningsOnly(jobs[i]))
              => /\ job_log[i].status # "VALIDATION_FAILED"
                 /\ ~CredentialsMissing(jobs[i])
                       => (Started(i) /\ job_log[i].transfer_calls >= 1)

\* a job with a hyphen in its table name and a chunk_size of 500 has ended
\* SUCCESS after its transfer was invoked
C25_Witness ==
    \E i \in DOMAIN jobs :
        /\ WarningsOnly(jobs[i])
        /\ Finished(i)
        /\ job_log[i].status = "SUCCESS"
        /\ job_log[i].transfer_calls >= 1

\* the calls of execute_job that have returned
Returned == { i \in DOMAIN jobs : Finished(i) /\ ~job_log[i].raised }

\* C28: each call of execute_job that returns has emitted exactly one audit
\* record for its job; the record's status is one of VALIDATION_FAILED,
\* SECRETS_INVALID, SUCCESS, FAILED, ERROR, and execute_job returns True
\* exactly when that status is SUCCESS.
C28_OneAuditRecord ==
    /\ Len(audit) = Cardinality(Returned)
    /\ \A i \in Returned :
          /\ Cardinality({ k \in DOMAIN audit :
                             /\ audit[k].job_name = job_name(jobs[i])
                             /\ audit[k].status = job_log[i].status })
               = Cardinality({ j \in Returned :
                                 /\ job_name(jobs[j]) = job_name(jobs[i])
                                 /\ job_log[j].status = job_log[i].status })
          /\ job_log[i].status \in {"VALIDATION_FAILED", "SECRETS_INVALID",
                                    "SUCCESS", "FAILED", "ERROR"}
          /\ job_log[i].returned <=> job_log[i].status = "SUCCESS"

\* run_all has returned after three calls of execute_job that ended
\* VALIDATION_FAILED, SUCCESS and FAILED
C28_Witness ==
    /\ RunAllEnded
    /\ Cardinality(Returned) = 3
    /\ WithStatus("VALIDATION_FAILED") # {}
    /\ WithStatus("SUCCESS") # {}
    /\ WithStatus("FAILED") # {}

(***************************************************************************)
(* MetricsCollector in use (metrics.py): hooks are registered, jobs are    *)
(* started, updated and completed.  A hook is what it does when called:    *)
(* "ok" returns, "raises" raises an Exception.                             *)
(***************************************************************************)
MaxHooks == 3           \* register_hook is called at most MaxHooks times
MaxStarted == 2         \* start_job is called at most MaxStarted times

Hooks == {"ok", "raises"}

\* the job names and final statuses given to the collector
TrackedJobs == {<<"pg_main", "orders">>, <<"crm_api", "users">>}

FinalStatuses == {"SUCCESS", "FAILED"}

\* the variant of the hook loop without try / except: the first hook that
\* raises ends the loop and the exception leaves complete_job
RECURSIVE call_hooks_uncaught(_, _, _)
call_hooks_uncaught(hooks, metrics, k) ==
    IF k > Len(hooks) THEN [calls |-> <<>>, raised |-> FALSE]
    ELSE IF hooks[k] = "raises"
    THEN [calls |-> <<[hook |-> k, metrics |-> metrics]>>, raised |-> TRUE]
    ELSE LET rest == call_hooks_uncaught(hooks, metrics, k + 1)
         IN  [calls |-> <<[hook |-> k, metrics |-> metrics]>> \o rest.calls,
              raised |-> rest.raised]

\* complete_job, lines 196-200: the hooks from the k-th on are called with the
\* job's metrics; what a hook raises is caught and logged
RECURSIVE call_hooks(_, _, _)
call_hooks(hooks, metrics, k) ==
    IF k > Len(hooks) THEN [calls |-> <<>>, raised |-> FALSE]
    ELSE LET rest == call_hooks(hooks, metrics, k + 1)
         IN  [calls |-> <<[hook |-> k, metrics |-> metrics]>> \o rest.calls,
              raised |-> rest.raised]

\* a collector after __init__
InitMetrics ==
    /\ now = 0
    /\ NoHarness
    /\ NoOrchestrator
    /\ NoLoader
    /\ NoValidator
    /\ NoDestinationLookup
    /\ NoCollector

\* register_hook(hook), line 125
RegisterHook(hook) ==
    /\ Len(collector.hooks) < MaxHooks
    /\ collector' = [collector EXCEPT !.hooks = Append(@, hook)]
    /\ UNCHANGED <<now, harness_vars, orch_vars, loader_vars, destination_vars, validator_vars, health>>

\* start_job(job_name, source_type)
StartJob(name) ==
    /\ Cardinality(DOMAIN collector.active_jobs) + Len(collector.completed_jobs) < MaxStarted
    /\ collector' = [collector EXCEPT
                        !.active_jobs = start_job(@, name, "postgresql")]
    /\ UNCHANGED <<now, harness_vars, orch_vars, loader_vars, destination_vars, validator_vars, health>>

\* update_job(job_name, retry_count=1), lines 153-170
UpdateJob(name) ==
    /\ name \in DOMAIN collector.active_jobs
    /\ collector.active_jobs[name].retry_count = 0
    /\ collector' = [collector EXCEPT !.active_jobs[name].retry_count = 1]
    /\ UNCHANGED <<now, harness_vars, orch_vars, loader_vars, destination_vars, validator_vars, health>>

\* complete_job(job_name, status, rows_processed), lines 172-204
CompleteJob(name, status) ==
    LET m == complete_job(collector.active_jobs, collector.completed_jobs, name, status, 100)
        h == IF name \in DOMAIN collector.active_jobs
             THEN call_hooks(collector.hooks, m.completed[Len(m.completed)], 1)
             ELSE [calls |-> <<>>, raised |-> FALSE]
    IN  /\ collector' = [collector EXCEPT
                            !.active_jobs = m.active,
                            !.completed_jobs = m.completed,
                            !.hook_calls = h.calls,
                            !.raised = h.raised,
                            !.completing = [job_name |-> name, status |-> status,
                                            was_active |-> name \in DOMAIN collector.active_jobs,
                                            hooks |-> collector.hooks]]
        /\ UNCHANGED <<now, harness_vars, orch_vars, loader_vars, destination_vars, validator_vars, health>>

NextMetrics ==
    \/ \E hook \in Hooks : RegisterHook(hook)
    \/ \E name \in TrackedJobs : StartJob(name)
    \/ \E name \in TrackedJobs : UpdateJob(name)
    \/ \E name \in TrackedJobs, status \in FinalStatuses : CompleteJob(name, status)

SpecMetrics == InitMetrics /\ [][NextMetrics]_vars

(***************************************************************************)
(* Properties of complete_job, checked under SpecMetrics.                  *)
(***************************************************************************)
\* the last complete_job was for an active job and a registered hook raised
HookRaised ==
    /\ collector.completing.was_active
    /\ \E k \in DOMAIN collector.completing.hooks :
           collector.completing.hooks[k] = "raises"

\* the record the last complete_job appended
LastCompleted == collector.completed_jobs[Len(collector.completed_jobs)]

\* C27: when a registered hook raises during complete_job, the exception does
\* not propagate to the caller, the job is in the completed list with its
\* final status, and every hook registered after the failing one is still
\* invoked with the job's metrics.
C27_HookFailureContained ==
    HookRaised
        => /\ ~collector.raised
           /\ collector.completed_jobs # <<>>
           /\ LastCompleted.job_name = collector.completing.job_name
           /\ LastCompleted.status = collector.completing.status
           /\ \A k \in DOMAIN collector.completing.hooks :
                 (\E f \in 1..(k - 1) : collector.completing.hooks[f] = "raises")
                    => \E c \in DOMAIN collector.hook_calls :
                          /\ collector.hook_calls[c].hook = k
                          /\ collector.hook_calls[c].metrics = LastCompleted

\* complete_job ran three hooks of which the first raised
C27_Witness ==
    /\ HookRaised
    /\ Len(collector.completing.hooks) = 3
    /\ collector.completing.hooks[1] = "raises"
    /\ Len(collector.hook_calls) = 3
    /\ LastCompleted.status = "FAILED"

(***************************************************************************)
(* Properties of ConfigLoader.load_secrets, checked under SpecLoader.      *)
(***************************************************************************)
\* C30 as stated: the static secrets file is read at most once per
\* ConfigLoader, however many resolutions reach the file backend; every later
\* resolution is served from the cached content.
C30_AsStated == secrets_file.loads <= 1

(***************************************************************************)
(* Properties of the delays of execute_with_retry, checked under Spec.     *)
(***************************************************************************)
\* the handler is about to sleep before its next attempt, without jitter
SleepsWithoutJitter == run.pc = "sleep" /\ run.config.jitter = 0

\* the number of the attempt the sleep precedes
NextAttempt == run.attempt + 1

\* C29 as stated: with jitter = 0, the delay slept before attempt n (n >= 2)
\* equals min(max_delay, initial_delay * exponential_base^(n-1)), and is never
\* below 100 ms.
C29_AsStated ==
    SleepsWithoutJitter
        => /\ NextAttempt >= 2
           /\ run.delay = Min(run.config.max_delay,
                              run.config.initial_delay
                                  * Pow(run.config.exponential_base, NextAttempt - 1))
           /\ run.delay >= 1

\* C29: with jitter = 0, the delay slept before attempt n (n >= 2) equals
\* max(100 ms, min(max_delay, initial_delay * exponential_base^(n-2))), and is
\* never below 100 ms.
C29_DelayWithoutJitter ==
    SleepsWithoutJitter
        => /\ NextAttempt >= 2
           /\ run.delay = Max(1, Min(run.config.max_delay,
                                     run.config.initial_delay
                                         * Pow(run.config.exponential_base, NextAttempt - 2)))
           /\ run.delay >= 1

\* the handler sleeps 200 ms before attempt 3, with an initial delay of 100 ms
C29_Witness ==
    /\ SleepsWithoutJitter
    /\ NextAttempt = 3
    /\ run.config.initial_delay = 1
    /\ run.delay = 2

(***************************************************************************)
(* ConfigLoader.get_destination_config (src/config/loader.py).  An entry   *)
(* of [destination] is a dict: `items` maps its plain keys to their        *)
(* values, and when it has a nested table under 'credentials',             *)
(* `credentials` maps that table's keys to theirs.                         *)
(***************************************************************************)
DestinationKeys == {"bucket_url", "account_name", "account_key"}

DestinationValues == {"top", "nested"}

\* the dicts with keys among DestinationKeys
DestinationDicts ==
    UNION {[keys -> DestinationValues] : keys \in SUBSET DestinationKeys}

\* what the secrets file may hold for the destination looked up: no
\* [destination] section, a section without the entry, or the entry
DestinationSections ==
    [kind : {"no_destination", "no_entry"}, items : {<<>>},
     has_credentials : {FALSE}, credentials : {<<>>}]
    \cup [kind : {"entry"}, items : DestinationDicts,
          has_credentials : {FALSE}, credentials : {<<>>}]
    \cup [kind : {"entry"}, items : DestinationDicts,
          has_credentials : {TRUE}, credentials : DestinationDicts]

\* the variant of the flattening in which the nested value wins
flatten_credentials_override(dest_config) ==
    IF ~dest_config.has_credentials THEN dest_config
    ELSE [dest_config EXCEPT !.items = dest_config.credentials @@ dest_config.items]

\* lines 314-320: for key, value in dest_config['credentials'].items():
\* if key not in dest_config: dest_config[key] = value
flatten_credentials(dest_config) ==
    IF ~dest_config.has_credentials THEN dest_config
    ELSE [dest_config EXCEPT !.items = dest_config.items @@ dest_config.credentials]

\* get_destination_config, lines 293-322: the dict returned or the KeyError
get_destination_config(section) ==
    IF section.kind \in {"no_destination", "no_entry"}
    THEN [pc |-> "raised", config |-> <<>>]
    ELSE [pc |-> "returned",
          config |-> flatten_credentials([items |-> section.items,
                                          has_credentials |-> section.has_credentials,
                                          credentials |-> section.credentials])]

\* a ConfigLoader whose secrets file holds some [destination] section
InitDestination ==
    /\ now = 0
    /\ NoHarness
    /\ NoOrchestrator
    /\ NoLoader
    /\ NoCollector
    /\ NoValidator
    /\ destination_section \in DestinationSections
    /\ destination = NoDestination

\* a call of get_destination_config for the destination
GetDestinationConfig ==
    /\ destination' = get_destination_config(destination_section)
    /\ UNCHANGED <<now, harness_vars, orch_vars, loader_vars, metrics_vars, validator_vars,
                   destination_section>>

NextDestination == GetDestinationConfig

SpecDestination == InitDestination /\ [][NextDestination]_vars

(***************************************************************************)
(* Properties of get_destination_config, checked under SpecDestination.    *)
(***************************************************************************)
\* C31: get_destination_config(name) returns a map in which every key of the
\* nested credentials sub-map is also present at the top level with the same
\* value, except that a key already present at the top level keeps its
\* top-level value; applying the flattening again changes nothing.
C31_FlattenedCredentials ==
    destination.pc = "returned"
        => /\ \A k \in DOMAIN destination_section.items :
                 /\ k \in DOMAIN destination.config.items
                 /\ destination.config.items[k] = destination_section.items[k]
           /\ destination_section.has_credentials
                 => \A k \in DOMAIN destination_section.credentials :
                       /\ k \in DOMAIN destination.config.items
                       /\ k \notin DOMAIN destination_section.items
                             => destination.config.items[k]
                                    = destination_section.credentials[k]
           /\ flatten_credentials(destination.config) = destination.config

\* the entry has bucket_url both at the top level and, with another value,
\* under credentials, and account_key under credentials only
C31_Witness ==
    /\ destination.pc = "returned"
    /\ destination_section.has_credentials
    /\ "bucket_url" \in DOMAIN destination_section.items
    /\ "bucket_url" \in DOMAIN destination_section.credentials
    /\ destination_section.items["bucket_url"] = "top"
    /\ destination_section.credentials["bucket_url"] = "nested"
    /\ "account_key" \notin DOMAIN destination_section.items
    /\ "account_key" \in DOMAIN destination_section.credentials
    /\ destination.config.items["bucket_url"] = "top"
    /\ destination.config.items["account_key"] = destination_section.credentials["account_key"]

(***************************************************************************)
(* Further properties of the breaker and the retry handler, under Spec.    *)
(***************************************************************************)
\* the last operation on the breaker was a read of its state, as
\* allow_request makes; hist.prev is the breaker before it, hist.t its time
StateWasRead == hist.op = "state"

\* C32: allow_request() never changes the breaker's failure count, success
\* count or last-failure time; its only possible effect is the lazy OPEN to
\* HALF_OPEN mode change (made once the timeout has elapsed), and it returns
\* false exactly when the mode after that check is OPEN.
C32_AllowRequestFrame ==
    StateWasRead
        => /\ circuit_breaker._failure_count = hist.prev._failure_count
           /\ circuit_breaker._success_count = hist.prev._success_count
           /\ circuit_breaker._last_failure_time = hist.prev._last_failure_time
           /\ circuit_breaker.config = hist.prev.config
           /\ \/ circuit_breaker._state = hist.prev._state
              \/ /\ hist.prev._state = "OPEN"
                 /\ circuit_breaker._state = "HALF_OPEN"
                 /\ hist.t - hist.prev._last_failure_time >= hist.prev.config.timeout
           /\ allow_request(hist.prev, hist.t) <=> circuit_breaker._state # "OPEN"

\* a read of the state has just moved the breaker from OPEN to HALF_OPEN
C32_Witness ==
    /\ StateWasRead
    /\ hist.prev._state = "OPEN"
    /\ circuit_breaker._state = "HALF_OPEN"
    /\ circuit_breaker._failure_count > 0

\* the calls of fn made by the handler that failed with a retryable error
RetryableFailures ==
    { k \in 1..run.calls :
        /\ func_outcome(run.func, k) # "ok"
        /\ isinstance(func_outcome(run.func, k), run.config.retryable_exceptions) }

\* C33 as stated: execute_with_retry calls record_success exactly once after a
\* successful call of fn and record_failure exactly once after each retryable
\* failure of fn, and changes the breaker in no other case: when it has ended,
\* it has recorded one success if it returned a result of fn and none
\* otherwise, and as many failures as fn failed retryably.
C33_AsStated ==
    (run.pc = "done" /\ run.config.max_retries >= 1)
        => /\ run.recorded_successes = IF run.outcome = "returned" THEN 1 ELSE 0
           /\ run.recorded_failures = Cardinality(RetryableFailures)

\* C35: in every breaker state reachable by state reads, record_success and
\* record_failure (with failure_threshold >= 1 and success_threshold >= 1):
\* mode CLOSED implies failure count < failure_threshold; mode other than
\* HALF_OPEN implies success count = 0; success count < success_threshold;
\* mode OPEN or HALF_OPEN implies a last-failure time is set.
C35_BreakerInvariants ==
    /\ circuit_breaker._state = "CLOSED"
          => circuit_breaker._failure_count < circuit_breaker.config.failure_threshold
    /\ circuit_breaker._state # "HALF_OPEN" => circuit_breaker._success_count = 0
    /\ circuit_breaker._success_count < circuit_breaker.config.success_threshold
    /\ circuit_breaker._state \in {"OPEN", "HALF_OPEN"}
          => circuit_breaker._last_failure_time # None

\* a breaker that was opened, became HALF_OPEN, counted one success of the
\* two it needs, and was closed again by the second
C35_Witness ==
    /\ hist.op = "record_success"
    /\ hist.prev._state = "HALF_OPEN"
    /\ hist.prev._success_count = 1
    /\ circuit_breaker._state = "CLOSED"
    /\ circuit_breaker._last_failure_time # None

\* C39 as stated: for every RetryConfig (including max_retries <= 0) and a
\* breaker that allows requests, execute_with_retry invokes fn at least once
\* and either returns the result of a successful call of fn or raises; it
\* never returns a value without fn having succeeded.
C39_AsStated ==
    (run.pc = "done" /\ ~(run.rejected /\ run.calls_when_rejected = 0))
        => /\ run.calls >= 1
           /\ run.outcome \in {"returned", "raised"}
           /\ run.outcome = "returned"
                 => (func_outcome(run.func, run.calls) = "ok" /\ run.result = run.calls)

(***************************************************************************)
(* C34.  Rejected calls and recovery.                                      *)
(***************************************************************************)
\* the breaker was OPEN when it was last operated on, it became OPEN at
\* hist.opened_at, and no failure other than a rejection was recorded since
OpenWithoutFailureSince ==
    /\ hist.prev._state = "OPEN"
    /\ hist.opened_at # None
    /\ ~hist.failed_since_open

\* C34: a breaker that became OPEN at time t, with no call of fn failing
\* afterwards, is HALF_OPEN at the first state read at or after t + timeout,
\* whatever calls of execute_with_retry were rejected in between
C34_AsStated ==
    (/\ hist.op = "state"
     /\ OpenWithoutFailureSince
     /\ hist.t >= hist.opened_at + hist.prev.config.timeout)
        => circuit_breaker._state = "HALF_OPEN"

(***************************************************************************)
(* C36.  Pre-flight validation and the per-job validation.                 *)
(***************************************************************************)
\* run_all was called with skip_validation = False and went past the
\* pre-flight check of lines 672-687
PastPreflight ==
    /\ ~options.skip_validation
    /\ main.pc \in {"running", "done"}

\* C36: in a run_all with skip_validation = False that proceeds past the
\* pre-flight check no job ends with status VALIDATION_FAILED; in any run_all
\* execute_job rejects a job for validation only if validate_all_jobs on the
\* same job list returns all_valid = False.
C36_PreflightCoversJobs ==
    /\ PastPreflight
          => \A i \in DOMAIN jobs : job_log[i].status # "VALIDATION_FAILED"
    /\ \A i \in DOMAIN jobs :
          job_log[i].status = "VALIDATION_FAILED" => ~validate_all_jobs(jobs)[1]

\* a validated run_all has finished a batch of two or more jobs, one of which
\* had warnings against it, and every job of the batch went through
\* execute_job's own validation
C36_Witness ==
    /\ PastPreflight
    /\ main.pc = "done"
    /\ Len(jobs) >= 2
    /\ \E i \in DOMAIN jobs : WarningsOnly(jobs[i]) /\ Started(i)
    /\ \A i \in DOMAIN jobs : Finished(i)

(***************************************************************************)
(* The credential check of execute_job next to ConfigLoader's resolver     *)
(* (SpecSecrets).  An IngestionOrchestrator is constructed on the          *)
(* ConfigLoader: its secrets are what load_secrets returns (orchestrator.py *)
(* line 96); execute_job checks the source of a job against them (lines    *)
(* 266-280); get_source_config resolves the same source.                   *)
(***************************************************************************)
\* the source the job reads from, and the source types a job names for it
CheckedSource == "crm_api"
CheckedSourceTypes == {"api", "postgresql"}

\* the dict ConfigLoader.load_secrets returns (lines 147-158), as
\* validate_source_secrets reads it: {} when the file does not exist, else
\* what toml.load gives
secrets_toml(stores) ==
    CASE stores.toml.kind = "entry" ->
             [has_sources |-> TRUE, sources |-> (CheckedSource :> stores.toml.keys)]
      [] stores.toml.kind = "no_entry" -> [has_sources |-> TRUE, sources |-> <<>>]
      [] OTHER -> [has_sources |-> FALSE, sources |-> <<>>]

\* IngestionOrchestrator.__init__, line 96: self.secrets is load_secrets();
\* what toml.load raises on a file it cannot parse leaves the constructor
OrchestratorInit ==
    /\ secret_check.pc = "none"
    /\ credential_stores \in CredentialStores
    /\ secret_check' =
          IF credential_stores.toml.kind = "unreadable"
          THEN [secret_check EXCEPT !.pc = "raised"]
          ELSE [secret_check EXCEPT !.pc = "constructed",
                                    !.secrets = secrets_toml(credential_stores)]
    /\ secrets_file' = [secrets_file EXCEPT
                           !.loads = load_secrets(@, credential_stores)]
    /\ UNCHANGED <<now, harness_vars, orch_vars, metrics_vars, validator_vars, destination_vars,
                   credential_stores, lookup>>

\* execute_job, lines 266-283, for a job on the source: the first failing
\* result of validate_source_secrets(self.secrets, ...) ends the job
\* SECRETS_INVALID; with none the job goes on to metrics.start_job and the
\* transfer
ValidateSourceSecrets ==
    /\ secret_check.pc = "constructed"
    /\ \E source_type \in CheckedSourceTypes :
          secret_check' =
             [secret_check EXCEPT
                 !.pc = "checked",
                 !.source_type = source_type,
                 !.status =
                     IF FirstFailed(validate_source_secrets(secret_check.secrets,
                                                            CheckedSource, source_type)) # 0
                     THEN "SECRETS_INVALID"
                     ELSE "started"]
    /\ UNCHANGED <<now, harness_vars, orch_vars, metrics_vars, validator_vars, destination_vars,
                   credential_stores, lookup, secrets_file>>

NextSecrets ==
    \/ OrchestratorInit
    \/ ValidateSourceSecrets
    \/ GetSourceConfig

SpecSecrets == InitLoader /\ [][NextSecrets]_vars

\* the keys a source of the given type needs (validators.py lines 215-218)
RequiredKeys(source_type) ==
    IF source_type = "api" THEN REQUIRED_API_KEYS ELSE REQUIRED_DB_KEYS

\* get_source_config resolves a complete credential set for the source
Resolvable(source_type) ==
    LET r == get_source_config(credential_stores)
    IN  /\ r.pc = "returned"
        /\ RequiredKeys(source_type) \subseteq DOMAIN r.config.items

\* C37 as stated: a job whose source credentials get_source_config can
\* resolve from any backend of the chain passes the orchestrator's credential
\* check and goes on to the transfer; a job ends SECRETS_INVALID only when
\* the resolver chain would not yield a complete credential set.
C37_AsStated ==
    (secret_check.pc = "checked" /\ Resolvable(secret_check.source_type))
        => secret_check.status = "started"

====
